---- MODULE Spec2Model ----
(***************************************************************************)
(* Model of the mini-cdp API server (Express + Postgres):                  *)
(*   POST /identify, POST /track and POST /audiences/:id/rebuild, each one *)
(*   a Postgres transaction (BEGIN ... COMMIT / ROLLBACK) run on its own   *)
(*   pooled connection at the default READ COMMITTED isolation level,      *)
(*   against the schema of the README (profiles.email and profiles.user_id *)
(*   are UNIQUE), and POST /audiences and GET /audiences/:id/export, each  *)
(*   one a single statement.                                               *)
(* Every SQL statement of a handler is one step, so the handlers of        *)
(* concurrent requests interleave statement by statement.                  *)
(***************************************************************************)
EXTENDS Integers, Sequences, FiniteSets, TLC

\* ---------------------------------------------------------------- bounds
NumClients == 2
MaxCalls == 3
MaxClock == 1
MaxAudiences == 2

Clients == 1..NumClients

\* ---------------------------------------------------------------- values
NULL == "null"

\* String.prototype.trim on the strings the model uses
Trim(v) == IF v = " " THEN "" ELSE v

\* typeof v === "string" && v.trim().length > 0
isNonEmptyStringNoTrim(v) == v # NULL /\ v # ""
isNonEmptyString(v) == v # NULL /\ Trim(v) # ""

NoTraits == <<>>

\* traits && typeof traits === "object" ? traits : {}
TraitsObj(t) == IF t.kind = "object" THEN t.val ELSE NoTraits

\* { ...(profile.traits || {}), ...traits }
MergeTraitsReplace(old, new) == new
MergeTraits(old, new) ==
  [k \in (DOMAIN old) \cup (DOMAIN new) |-> IF k \in DOMAIN new THEN new[k] ELSE old[k]]

AbsentTraits == [kind |-> "absent", val |-> NoTraits]

\* an absent occurred_at (timestamps are integers)
NoTime == 0 - 1

\* properties.amount as a JS value: t is its type, n its numeric reading in
\* thousandths (Number(v)); t = "text" is a string that Number() reads as NaN
NoAmount == [t |-> "absent", n |-> 0]

\* a `properties` payload that is a string and not an object
TextProperties == [t |-> "payload", n |-> 0]

\* properties && typeof properties === "object" ? properties : {}
Props(a) == IF a.t = "payload" THEN NoAmount ELSE a

\* the JS value null of `let profile: any | null = null`
NullRow ==
  [id |-> 0, primary_identifier |-> NULL, email |-> NULL, user_id |-> NULL,
   anonymous_id |-> NULL, first_seen_at |-> 0, last_seen_at |-> 0,
   total_orders |-> 0, total_spend |-> 0, traits |-> NoTraits]

NoReq ==
  [op |-> "none", email |-> NULL, user_id |-> NULL, anonymous_id |-> NULL,
   traits |-> AbsentTraits, event_type |-> NULL, amount |-> NoAmount, occurred_at |-> NoTime,
   audience_id |-> 0]

VARIABLES
  profiles,   \* committed rows of table profiles: id -> row
  events,     \* committed rows of table events (a set of rows)
  wr,         \* wr[c]: profile rows written (inserted or updated) by c's open transaction
  evs,        \* evs[c]: event rows inserted by c's open transaction
  nextId,     \* next profile id (uuid_generate_v4 never repeats)
  nextEid,    \* next event id
  clock,      \* wall clock
  pc,         \* pc[c]: the statement handler c executes next
  req,        \* req[c]: the request body
  now,        \* now[c]: NOW() of c's transaction (its start time)
  profile,    \* profile[c]: the handler's local variable `profile`
  event,      \* event[c]: the handler's local variable `event`
  status,     \* status[c]: HTTP status of the response (0: none yet)
  ncalls,     \* requests received so far
  pre,        \* history: committed profiles when c's request arrived
  conc,       \* history: the clients whose request overlapped c's request
  created,    \* history: the row c's request inserted into profiles (INSERT ... RETURNING *)
  seq,        \* history: arrival number of c's request
  audiences,  \* committed rows of table audiences: id -> row
  members,    \* committed rows of table audience_members (a set of rows)
  aw,         \* aw[c]: rows of audience_members deleted and inserted, and rows
              \* of audiences updated, by c's open transaction
  reb,        \* reb[c]: the locals of the rebuild handler (id, definition, rowCount
              \* and the profile ids of the rows of insertMembers)
  resp,       \* the last response of a one-statement handler (create, export)
  spre,       \* history: committed events, audiences and members when c's request
              \* arrived; stores: the committed profiles and events, from the arrival
              \* of c's rebuild to its end
  dirty,      \* history: dirty[a] iff an /identify or /track request has committed
              \* since the last committed rebuild of audience a
  warehouse,  \* rows of the BigQuery table (a table has no key: each row is
              \* held with the number of the run that inserted it)
  etl         \* the export script: its position, its locals `profiles` and
              \* `rows`, the number of the run, whether it reported a failure

vars == <<profiles, events, wr, evs, nextId, nextEid, clock, pc, req, now,
          profile, event, status, ncalls, pre, conc, created, seq,
          audiences, members, aw, reb, resp, spre, dirty, warehouse, etl>>

etlvars == <<warehouse, etl>>

audvars == <<audiences, members, aw, reb, resp, spre, dirty>>

store == <<profiles, events>>
locals == <<req, now, profile, event, status>>
hist == <<pre, conc, created, seq>>

NoEvent ==
  [id |-> 0, profile_id |-> 0, user_id |-> NULL, anonymous_id |-> NULL,
   event_type |-> NULL, amount |-> NoAmount, occurred_at |-> 0, created_at |-> 0]

NoRows == [i \in {} |-> NullRow]

\* an absent number of a JSON object, and a path parameter parseInt reads as NaN
NoNumber == 0 - 1
NaN == 0 - 1

\* an audience definition: kind is the JS type of the value sent, min_total_spend
\* is in hundredths, days_since_last_event in days
EmptyDefinition ==
  [kind |-> "object", min_total_spend |-> NoNumber, days_since_last_event |-> NoNumber]

NoAudiences == [i \in {} |-> [name |-> NULL, definition |-> EmptyDefinition, last_built_at |-> NoTime]]

NoWrites == [del |-> {}, ins |-> {}, aud |-> NoAudiences]

NoRebuild ==
  [id |-> 0, min_total_spend |-> 0, days_since_last_event |-> 0, rowCount |-> 0,
   rows |-> {}]

\* the export script before its first run
NoEtl == [pc |-> "idle", profiles |-> NoRows, rows |-> {}, run |-> 0, failed |-> FALSE]

NoResp == [op |-> "none", status |-> 0, id |-> 0, rows |-> {}]

Init ==
  /\ profiles = NoRows
  /\ events = {}
  /\ wr = [c \in Clients |-> NoRows]
  /\ evs = [c \in Clients |-> {}]
  /\ nextId = 1
  /\ nextEid = 1
  /\ clock = 0
  /\ pc = [c \in Clients |-> "idle"]
  /\ req = [c \in Clients |-> NoReq]
  /\ now = [c \in Clients |-> 0]
  /\ profile = [c \in Clients |-> NullRow]
  /\ event = [c \in Clients |-> NoEvent]
  /\ status = [c \in Clients |-> 0]
  /\ ncalls = 0
  /\ pre = [c \in Clients |-> NoRows]
  /\ conc = [c \in Clients |-> {}]
  /\ created = [c \in Clients |-> NullRow]
  /\ seq = [c \in Clients |-> 0]
  /\ audiences = NoAudiences
  /\ members = {}
  /\ aw = [c \in Clients |-> NoWrites]
  /\ reb = [c \in Clients |-> NoRebuild]
  /\ resp = NoResp
  /\ spre = [c \in Clients |->
              [events |-> {}, audiences |-> NoAudiences, members |-> {}, stores |-> {}]]
  /\ dirty = [a \in {} |-> FALSE]
  /\ warehouse = {}
  /\ etl = NoEtl

\* ---------------------------------------------------------------- store
\* what a statement of c's transaction sees (READ COMMITTED): the committed
\* rows, and c's own uncommitted writes
Visible(c) ==
  [id \in (DOMAIN profiles) \cup (DOMAIN wr[c]) |->
     IF id \in DOMAIN wr[c] THEN wr[c][id] ELSE profiles[id]]

\* the row is write-locked by another open transaction
Locked(c, id) == \E d \in Clients \ {c} : id \in DOMAIN wr[d]

\* email text UNIQUE, user_id text UNIQUE, in the order the indexes are created
UniqueKeys == <<"email", "user_id">>

\* state of the unique index on column k for the new row version r of c:
\* an entry of an open transaction blocks the statement until that
\* transaction ends, a committed live entry is a unique_violation
KeyStateOff(c, r, k) == "ok"
KeyState(c, r, k) ==
  IF r[k] = NULL THEN "ok"
  ELSE IF \/ \E d \in Clients \ {c} : \E id \in DOMAIN wr[d] :
               id # r.id /\ wr[d][id][k] = r[k]
          \/ \E id \in DOMAIN profiles :
               id # r.id /\ profiles[id][k] = r[k] /\ Locked(c, id)
       THEN "wait"
  ELSE IF \E id \in DOMAIN Visible(c) : id # r.id /\ Visible(c)[id][k] = r[k]
       THEN "violation"
  ELSE "ok"

UniqueCheck(c, r) ==
  IF KeyState(c, r, UniqueKeys[1]) # "ok"
  THEN KeyState(c, r, UniqueKeys[1])
  ELSE KeyState(c, r, UniqueKeys[2])

\* ---------------------------------------------------------------- helpers
Max(a, b) == IF a >= b THEN a ELSE b

\* String.prototype.toLowerCase on the event types the model uses
ToLowerCase(s) == IF s \in {"Purchase", "PURCHASE"} THEN "purchase" ELSE s

\* Number(props.amount || 0), in thousandths
NumberOf(a) == IF a.t = "absent" THEN 0 ELSE a.n
IsNaN(a) == a.t = "text"

\* numeric(12,2): total_spend (in hundredths) + amount (in thousandths), rounded
\* half away from zero to two fraction digits
AddSpendTruncated(total_spend, amount) == (total_spend * 10 + amount) \div 10
AddSpend(total_spend, amount) == (total_spend * 10 + amount + 5) \div 10

HasIdentifier(r) ==
  isNonEmptyString(r.email) \/ isNonEmptyString(r.user_id) \/ isNonEmptyString(r.anonymous_id)

\* (isNonEmptyString(user_id) && user_id) || (isNonEmptyString(email) && email) || ...
PrimaryIdentifierEmailFirst(r) ==
  IF isNonEmptyString(r.email) THEN r.email
  ELSE IF isNonEmptyString(r.user_id) THEN r.user_id
  ELSE IF isNonEmptyString(r.anonymous_id) THEN r.anonymous_id
  ELSE NULL
PrimaryIdentifier(r) ==
  IF isNonEmptyString(r.user_id) THEN r.user_id
  ELSE IF isNonEmptyString(r.email) THEN r.email
  ELSE IF isNonEmptyString(r.anonymous_id) THEN r.anonymous_id
  ELSE NULL

\* isNonEmptyString(v) ? v : null
Param(v) == IF isNonEmptyString(v) THEN v ELSE NULL

\* COALESCE(a, b)
Coalesce(a, b) == IF a # NULL THEN a ELSE b

\* INSERT INTO profiles (...) VALUES ($1, $2, $3, $4, $5::jsonb, NOW(), NOW())
NewProfile(id, r, traits, t) ==
  [id |-> id, primary_identifier |-> PrimaryIdentifier(r),
   email |-> Param(r.email), user_id |-> Param(r.user_id),
   anonymous_id |-> Param(r.anonymous_id),
   first_seen_at |-> t, last_seen_at |-> t,
   total_orders |-> 0, total_spend |-> 0, traits |-> traits]

\* UPDATE profiles SET email = COALESCE($1, email), ... WHERE id = $6
\* row: the current version of the row; local: the handler's copy of it
IdentifyUpdateNoCoalesce(row, local, r, t) ==
  [row EXCEPT !.email = Param(r.email),
              !.user_id = Param(r.user_id),
              !.anonymous_id = Param(r.anonymous_id),
              !.traits = MergeTraits(local.traits, TraitsObj(r.traits)),
              !.last_seen_at = t,
              !.primary_identifier = Coalesce(row.primary_identifier, PrimaryIdentifier(r))]
IdentifyUpdateResetsCreation(row, local, r, t) ==
  [row EXCEPT !.email = Coalesce(Param(r.email), row.email),
              !.user_id = Coalesce(Param(r.user_id), row.user_id),
              !.anonymous_id = Coalesce(Param(r.anonymous_id), row.anonymous_id),
              !.traits = MergeTraits(local.traits, TraitsObj(r.traits)),
              !.last_seen_at = t,
              !.primary_identifier = Coalesce(PrimaryIdentifier(r), row.primary_identifier)]
IdentifyUpdateRow(row, local, r, t) ==
  [row EXCEPT !.email = Coalesce(Param(r.email), row.email),
              !.user_id = Coalesce(Param(r.user_id), row.user_id),
              !.anonymous_id = Coalesce(Param(r.anonymous_id), row.anonymous_id),
              !.traits = MergeTraits(local.traits, TraitsObj(r.traits)),
              !.last_seen_at = t,
              !.primary_identifier = Coalesce(row.primary_identifier, PrimaryIdentifier(r))]

\* the three UPDATE profiles statements of /track
IsPurchase(ev) ==
  /\ ToLowerCase(ev.event_type) = "purchase"
  /\ ~IsNaN(ev.amount)
  /\ NumberOf(ev.amount) > 0

TrackUpdateRowNoGreatest(row, ev) ==
  IF IsPurchase(ev)
  THEN [row EXCEPT !.total_orders = row.total_orders + 1,
                   !.total_spend = AddSpend(row.total_spend, NumberOf(ev.amount)),
                   !.last_seen_at = ev.occurred_at]
  ELSE [row EXCEPT !.last_seen_at = ev.occurred_at]
TrackUpdateRow(row, ev) ==
  IF IsPurchase(ev)
  THEN [row EXCEPT !.total_orders = row.total_orders + 1,
                   !.total_spend = AddSpend(row.total_spend, NumberOf(ev.amount)),
                   !.last_seen_at = Max(row.last_seen_at, ev.occurred_at)]
  ELSE [row EXCEPT !.last_seen_at = Max(row.last_seen_at, ev.occurred_at)]

\* the order of the three SELECT ... WHERE <kind> = $1 lookups
LookupOrderEmailFirst == <<"email", "user_id", "anonymous_id">>
LookupOrder == <<"user_id", "email", "anonymous_id">>
LookupPc == <<"lookup1", "lookup2", "lookup3">>

LookupIndex(p) == CHOOSE k \in 1..3 : LookupPc[k] = p

\* where the handler goes once `profile` is decided
AfterLookupsNoInsert(r, prof) ==
  IF r.op = "identify"
  THEN (IF prof.id = 0 THEN "insert" ELSE "update")
  ELSE "event"
AfterLookups(r, prof) ==
  IF r.op = "identify"
  THEN (IF prof.id = 0 THEN "insert" ELSE "update")
  ELSE (IF prof.id = 0 /\ HasIdentifier(r) THEN "insert" ELSE "event")

\* the next lookup after the k-th one that the handler executes, while profile is null
NextLookup(r, k) ==
  LET later == {j \in (k+1)..3 : isNonEmptyString(r[LookupOrder[j]])}
  IN IF later = {} THEN AfterLookups(r, NullRow)
     ELSE LookupPc[CHOOSE j \in later : \A i \in later : j <= i]

Active == {d \in Clients : pc[d] \notin {"idle", "done"}}

\* definition.days_since_last_event || 36500
DefaultDays == 36500

\* Number(v || d) of a number v of the definition
NumberOrZero(v, d) == IF v = NoNumber \/ v = 0 THEN 0 ELSE v
NumberOr(v, d) == IF v = NoNumber \/ v = 0 THEN d ELSE v

\* SELECT profile_id, MAX(occurred_at) AS last_event_at FROM events GROUP BY
\* profile_id, LEFT JOINed to profile p: NULL (NoTime) when p has no event
LastEventAt(evset, p) ==
  LET times == {ev.occurred_at : ev \in {e \in evset : e.profile_id = p}}
  IN IF times = {} THEN NoTime ELSE CHOOSE m \in times : \A t \in times : t <= m

\* WHERE p.total_spend >= $2 AND e.last_event_at IS NOT NULL AND e.last_event_at >= $3
QualifyingNullable(rows, evset, min, cutoff) ==
  {p \in DOMAIN rows :
     rows[p].total_spend >= min /\ LastEventAt(evset, p) >= cutoff}
QualifyingReversed(rows, evset, min, cutoff) ==
  {p \in DOMAIN rows :
     /\ rows[p].total_spend >= min
     /\ LastEventAt(evset, p) # NoTime
     /\ LastEventAt(evset, p) <= cutoff}
Qualifying(rows, evset, min, cutoff) ==
  {p \in DOMAIN rows :
     /\ rows[p].total_spend >= min
     /\ LastEventAt(evset, p) # NoTime
     /\ LastEventAt(evset, p) >= cutoff}

\* PRIMARY KEY (audience_id, profile_id)
SameKeyOff(m, a, p) == FALSE
SameKey(m, a, p) == m.audience_id = a /\ m.profile_id = p

\* ---------------------------------------------------------------- requests
Some(n) == [t |-> "number", n |-> n]

Identify(u, e, a) ==
  [op |-> "identify", email |-> e, user_id |-> u, anonymous_id |-> a,
   traits |-> AbsentTraits, event_type |-> NULL, amount |-> NoAmount,
   occurred_at |-> NoTime, audience_id |-> 0]

Track(u, e, a, ty, am, at) ==
  [op |-> "track", email |-> e, user_id |-> u, anonymous_id |-> a,
   traits |-> AbsentTraits, event_type |-> ty, amount |-> am, occurred_at |-> at,
   audience_id |-> 0]

\* Spec: concurrent handlers, every combination of identifiers
IdentifyReqs ==
  {Identify(u, e, a) : u \in {NULL, "u1"}, e \in {NULL, "e1", "e2"}, a \in {NULL, "a1"}}

TrackReqs ==
  {Track(u, e, NULL, "page_view", NoAmount, NoTime) : u \in {NULL, "u1"}, e \in {NULL, "e1"}}

\* SpecSeq: one handler at a time, blank identifiers and a moving clock
SeqIdentifyReqs ==
  {Identify(u, e, a) : u \in {NULL, "u1"}, e \in {NULL, " ", "e1", "e2"}, a \in {NULL, "", "a1"}}

SeqTrackReqs ==
  {Track(u, e, a, "page_view", NoAmount, NoTime) :
     u \in {NULL, "u1"}, e \in {NULL, " ", "e1"}, a \in {NULL, "a1"}}

\* SpecAgg: concurrent purchases (amounts 10.00 and 25.00) of one user
AggTrackReqs ==
  {Track("u1", NULL, NULL, ty, Some(am), NoTime) :
     ty \in {"purchase", "Purchase"}, am \in {10000, 25000}}

\* properties.amount sent as a string that Number() reads as n ("5"), as a
\* string that it reads as NaN ("abc"), and as the boolean true
Str(n) == [t |-> "string", n |-> n]
Text == [t |-> "text", n |-> 0]
True == [t |-> "bool", n |-> 1000]

\* SpecPurchase: one request at a time; /track of user u1 with every kind of
\* amount (59.99, 0.005, 0.004, 0, -1.00, "5", "abc", true, none), with an
\* occurred_at in the past and in the future, a purchase of a second profile
\* and /identify of u1
PurchaseTrackReqs ==
  {Track("u1", NULL, NULL, "purchase", am, NoTime) :
     am \in {NoAmount, Some(59990), Some(5), Some(4), Some(0), Some(0 - 1000),
             Str(5000), Text, True}}
  \cup {Track("u1", NULL, NULL, "PURCHASE", Some(59990), NoTime),
        Track("u1", NULL, NULL, "page_view", Some(59990), NoTime),
        Track("u1", NULL, NULL, "page_view", NoAmount, 0),
        Track("u1", NULL, NULL, "page_view", NoAmount, 5),
        Track(NULL, "e1", NULL, "purchase", Some(10000), NoTime)}

PurchaseIdentifyReqs == {Identify("u1", e, NULL) : e \in {NULL, "e1"}}

\* a JSON object sent as traits
Obj(f) == [kind |-> "object", val |-> f]

\* a JSON string sent as traits
TextTraits == [kind |-> "text", val |-> NoTraits]

IdentifyT(u, e, a, tr) ==
  [op |-> "identify", email |-> e, user_id |-> u, anonymous_id |-> a,
   traits |-> tr, event_type |-> NULL, amount |-> NoAmount,
   occurred_at |-> NoTime, audience_id |-> 0]

\* SpecTraits: one /identify at a time, with trait payloads
TraitsIdentifyReqs ==
  {IdentifyT(ue[1], ue[2], NULL, tr) :
     ue \in {<<"u1", NULL>>, <<NULL, "e1">>, <<"u1", "e1">>},
     tr \in {AbsentTraits, TextTraits, Obj([a |-> 1]), Obj([b |-> 2]), Obj([a |-> 2])}}

\* POST /audiences/:id/rebuild
Rebuild(id) == [NoReq EXCEPT !.op = "rebuild", !.audience_id = id]

\* the JSON values sent as `definition` (amounts in hundredths)
Definition(min, days) ==
  [kind |-> "object", min_total_spend |-> min, days_since_last_event |-> days]

TextDefinition ==
  [kind |-> "text", min_total_spend |-> NoNumber, days_since_last_event |-> NoNumber]

\* a JSON array sent as `definition`: it has no min_total_spend and no
\* days_since_last_event property
ArrayDefinition ==
  [kind |-> "array", min_total_spend |-> NoNumber, days_since_last_event |-> NoNumber]

\* v && typeof v === "object": true of JSON objects and of JSON arrays
typeofObject(v) == v.kind \in {"object", "array"}

\* SpecAud: one request at a time; purchases of 150.00 by user
\* u1 and of 50.00 by e1, a page view dated 1, a profile without events, audiences
\* with the definitions {}, {min_total_spend: 100, days_since_last_event: 1},
\* {min_total_spend: 0, days_since_last_event: 0} and a string
AudTrackReqs ==
  {Track("u1", NULL, NULL, "purchase", Some(150000), NoTime),
   Track(NULL, "e1", NULL, "purchase", Some(50000), NoTime),
   Track("u1", NULL, NULL, "page_view", NoAmount, 1)}

AudIdentifyReqs == {Identify("u1", NULL, NULL)}

AudNames == {"", "vip"}

AudDefinitions == {EmptyDefinition, Definition(10000, 1), Definition(0, 0), TextDefinition}

AudIds == {NaN} \cup (1..MaxAudiences)

\* ---------------------------------------------------------------- actions
\* a request arrives at handler c: validation, pool.connect(), BEGIN
Arrive(c, r, p, st) ==
  /\ pc[c] \in {"idle", "done"}
  /\ ncalls < MaxCalls
  /\ ncalls' = ncalls + 1
  /\ req' = [req EXCEPT ![c] = r]
  /\ pc' = [pc EXCEPT ![c] = p]
  /\ status' = [status EXCEPT ![c] = st]
  /\ now' = [now EXCEPT ![c] = clock]
  /\ profile' = [profile EXCEPT ![c] = NullRow]
  /\ event' = [event EXCEPT ![c] = NoEvent]
  /\ pre' = [pre EXCEPT ![c] = profiles]
  /\ created' = [created EXCEPT ![c] = NullRow]
  /\ seq' = [seq EXCEPT ![c] = ncalls + 1]
  /\ conc' = [d \in Clients |->
                IF d = c THEN (IF p = "done" THEN {} ELSE Active \ {c})
                ELSE IF d \in Active /\ p # "done" THEN conc[d] \cup {c}
                ELSE conc[d] \ {c}]
  /\ spre' = [spre EXCEPT ![c] =
               [events |-> events, audiences |-> audiences, members |-> members,
                stores |-> IF r.op = "rebuild"
                           THEN {[profiles |-> profiles, events |-> events]}
                           ELSE {}]]
  /\ reb' = [reb EXCEPT ![c] = NoRebuild]
  /\ UNCHANGED <<profiles, events, wr, evs, nextId, nextEid, clock>>
  /\ UNCHANGED <<audiences, members, aw, resp, dirty>>
  /\ UNCHANGED etlvars

\* app.post("/identify"): 400 without a usable identifier, else BEGIN
BeginIdentify(c, R) ==
  \E r \in R :
    IF ~HasIdentifier(r)
    THEN Arrive(c, r, "done", 400)
    ELSE Arrive(c, r, NextLookup(r, 0), 0)

\* app.post("/track"): 400 without an event_type, else BEGIN
BeginTrack(c, R) ==
  \E r \in R :
    IF ~isNonEmptyString(r.event_type)
    THEN Arrive(c, r, "done", 400)
    ELSE Arrive(c, r, NextLookup(r, 0), 0)

\* SELECT * FROM profiles WHERE <kind> = $1; if (rowCount > 0) profile = rows[0]
Lookup(c) ==
  /\ pc[c] \in {LookupPc[k] : k \in 1..3}
  /\ LET k == LookupIndex(pc[c])
         kind == LookupOrder[k]
         rows == {id \in DOMAIN Visible(c) : Visible(c)[id][kind] = req[c][kind]}
     IN IF rows = {}
        THEN /\ pc' = [pc EXCEPT ![c] = NextLookup(req[c], k)]
             /\ UNCHANGED profile
        ELSE \E id \in rows :
               /\ profile' = [profile EXCEPT ![c] = Visible(c)[id]]
               /\ pc' = [pc EXCEPT ![c] = AfterLookups(req[c], Visible(c)[id])]
  /\ UNCHANGED <<profiles, events, wr, evs, nextId, nextEid, clock, req, now,
                 event, status, ncalls, pre, conc, created, seq>>
  /\ UNCHANGED audvars
  /\ UNCHANGED etlvars

\* INSERT INTO profiles ... RETURNING * (both handlers)
InsertProfile(c) ==
  /\ pc[c] = "insert"
  /\ LET traits == IF req[c].op = "identify" THEN TraitsObj(req[c].traits) ELSE NoTraits
         row == NewProfile(nextId, req[c], traits, now[c])
         chk == UniqueCheck(c, row)
     IN /\ chk # "wait"
        /\ IF chk = "ok"
           THEN /\ wr' = [wr EXCEPT ![c] = (nextId :> row) @@ wr[c]]
                /\ nextId' = nextId + 1
                /\ profile' = [profile EXCEPT ![c] = row]
                /\ created' = [created EXCEPT ![c] = row]
                /\ pc' = [pc EXCEPT ![c] = IF req[c].op = "identify" THEN "commit" ELSE "event"]
           ELSE /\ pc' = [pc EXCEPT ![c] = "rollback"]
                /\ UNCHANGED <<wr, nextId, profile, created>>
  /\ UNCHANGED <<profiles, events, evs, nextEid, clock, req, now, event, status,
                 ncalls, pre, conc, seq>>
  /\ UNCHANGED audvars
  /\ UNCHANGED etlvars

\* /identify: UPDATE profiles SET email = COALESCE($1, email), ... WHERE id = $6 RETURNING *
UpdateProfile(c) ==
  /\ pc[c] = "update"
  /\ ~Locked(c, profile[c].id)
  /\ LET row == IdentifyUpdateRow(Visible(c)[profile[c].id], profile[c], req[c], now[c])
         chk == UniqueCheck(c, row)
     IN /\ chk # "wait"
        /\ IF chk = "ok"
           THEN /\ wr' = [wr EXCEPT ![c] = (row.id :> row) @@ wr[c]]
                /\ profile' = [profile EXCEPT ![c] = row]
                /\ pc' = [pc EXCEPT ![c] = "commit"]
           ELSE /\ pc' = [pc EXCEPT ![c] = "rollback"]
                /\ UNCHANGED <<wr, profile>>
  /\ UNCHANGED <<profiles, events, evs, nextId, nextEid, clock, req, now, event,
                 status, ncalls, pre, conc, created, seq>>
  /\ UNCHANGED audvars
  /\ UNCHANGED etlvars

\* /track: INSERT INTO events ... RETURNING *
InsertEvent(c) ==
  /\ pc[c] = "event"
  /\ LET occurredAt == IF req[c].occurred_at # NoTime THEN req[c].occurred_at ELSE clock
         ev == [id |-> nextEid, profile_id |-> profile[c].id,
                user_id |-> Param(req[c].user_id),
                anonymous_id |-> Param(req[c].anonymous_id),
                event_type |-> req[c].event_type, amount |-> Props(req[c].amount),
                occurred_at |-> occurredAt, created_at |-> now[c]]
     IN /\ evs' = [evs EXCEPT ![c] = evs[c] \cup {ev}]
        /\ event' = [event EXCEPT ![c] = ev]
  /\ nextEid' = nextEid + 1
  /\ pc' = [pc EXCEPT ![c] = IF profile[c].id # 0 THEN "agg" ELSE "commit"]
  /\ UNCHANGED <<profiles, events, wr, nextId, clock, req, now, profile, status,
                 ncalls, pre, conc, created, seq>>
  /\ UNCHANGED audvars
  /\ UNCHANGED etlvars

\* /track: UPDATE profiles SET total_orders = ..., last_seen_at = GREATEST(...) WHERE id = $3
\* (the row the statement updates is the current one, read under the row lock)
UpdateAggregatesStale(c) ==
  /\ pc[c] = "agg"
  /\ ~Locked(c, profile[c].id)
  /\ LET row == TrackUpdateRow(profile[c], event[c])
     IN /\ wr' = [wr EXCEPT ![c] = (row.id :> row) @@ wr[c]]
        /\ profile' = [profile EXCEPT ![c] = row]
  /\ pc' = [pc EXCEPT ![c] = "commit"]
  /\ UNCHANGED <<profiles, events, evs, nextId, nextEid, clock, req, now, event,
                 status, ncalls, pre, conc, created, seq>>
  /\ UNCHANGED audvars
  /\ UNCHANGED etlvars
UpdateAggregates(c) ==
  /\ pc[c] = "agg"
  /\ ~Locked(c, profile[c].id)
  /\ LET row == TrackUpdateRow(Visible(c)[profile[c].id], event[c])
     IN /\ wr' = [wr EXCEPT ![c] = (row.id :> row) @@ wr[c]]
        /\ profile' = [profile EXCEPT ![c] = row]
  /\ pc' = [pc EXCEPT ![c] = "commit"]
  /\ UNCHANGED <<profiles, events, evs, nextId, nextEid, clock, req, now, event,
                 status, ncalls, pre, conc, created, seq>>
  /\ UNCHANGED audvars
  /\ UNCHANGED etlvars

\* a COMMIT of a rebuild that clears the event log
CommitClearsEvents(c) ==
  /\ pc[c] = "commit"
  /\ profiles' = Visible(c)
  /\ events' = IF req[c].op = "rebuild" THEN {} ELSE events \cup evs[c]
  /\ wr' = [wr EXCEPT ![c] = NoRows]
  /\ evs' = [evs EXCEPT ![c] = {}]
  /\ members' = (members \ aw[c].del) \cup aw[c].ins
  /\ audiences' = [id \in DOMAIN audiences |->
                     IF id \in DOMAIN aw[c].aud THEN aw[c].aud[id] ELSE audiences[id]]
  /\ aw' = [aw EXCEPT ![c] = NoWrites]
  /\ status' = [status EXCEPT ![c] = 200]
  /\ pc' = [pc EXCEPT ![c] = "done"]
  /\ dirty' = [a \in DOMAIN dirty |->
                 IF req[c].op = "rebuild" THEN dirty[a] /\ a # reb[c].id
                 ELSE audiences[a].last_built_at # NoTime]
  /\ spre' = [d \in Clients |->
                IF d # c /\ req[d].op = "rebuild" /\ pc[d] \notin {"idle", "done"}
                THEN [spre[d] EXCEPT !.stores =
                        @ \cup {[profiles |-> profiles', events |-> events']}]
                ELSE spre[d]]
  /\ UNCHANGED <<nextId, nextEid, clock, req, now, profile, event, ncalls,
                 pre, conc, created, seq, reb, resp>>
  /\ UNCHANGED etlvars

\* COMMIT; res.json(...)
Commit(c) ==
  /\ pc[c] = "commit"
  /\ profiles' = Visible(c)
  /\ events' = events \cup evs[c]
  /\ wr' = [wr EXCEPT ![c] = NoRows]
  /\ evs' = [evs EXCEPT ![c] = {}]
  /\ members' = (members \ aw[c].del) \cup aw[c].ins
  /\ audiences' = [id \in DOMAIN audiences |->
                     IF id \in DOMAIN aw[c].aud THEN aw[c].aud[id] ELSE audiences[id]]
  /\ aw' = [aw EXCEPT ![c] = NoWrites]
  /\ status' = [status EXCEPT ![c] = 200]
  /\ pc' = [pc EXCEPT ![c] = "done"]
  /\ dirty' = [a \in DOMAIN dirty |->
                 IF req[c].op = "rebuild" THEN dirty[a] /\ a # reb[c].id
                 ELSE audiences[a].last_built_at # NoTime]
  /\ spre' = [d \in Clients |->
                IF d # c /\ req[d].op = "rebuild" /\ pc[d] \notin {"idle", "done"}
                THEN [spre[d] EXCEPT !.stores =
                        @ \cup {[profiles |-> profiles', events |-> events']}]
                ELSE spre[d]]
  /\ UNCHANGED <<nextId, nextEid, clock, req, now, profile, event, ncalls,
                 pre, conc, created, seq, reb, resp>>
  /\ UNCHANGED etlvars

\* catch (err) { ROLLBACK; res.status(500) }
RollbackKeepsWrites(c) ==
  /\ pc[c] = "rollback"
  /\ profiles' = Visible(c)
  /\ events' = events \cup evs[c]
  /\ members' = (members \ aw[c].del) \cup aw[c].ins
  /\ wr' = [wr EXCEPT ![c] = NoRows]
  /\ evs' = [evs EXCEPT ![c] = {}]
  /\ aw' = [aw EXCEPT ![c] = NoWrites]
  /\ status' = [status EXCEPT ![c] = 500]
  /\ pc' = [pc EXCEPT ![c] = "done"]
  /\ UNCHANGED <<nextId, nextEid, clock, req, now, profile,
                 event, ncalls, pre, conc, created, seq>>
  /\ UNCHANGED <<audiences, reb, resp, spre, dirty>>
  /\ UNCHANGED etlvars
Rollback(c) ==
  /\ pc[c] = "rollback"
  /\ wr' = [wr EXCEPT ![c] = NoRows]
  /\ evs' = [evs EXCEPT ![c] = {}]
  /\ aw' = [aw EXCEPT ![c] = NoWrites]
  /\ status' = [status EXCEPT ![c] = 500]
  /\ pc' = [pc EXCEPT ![c] = "done"]
  /\ UNCHANGED <<profiles, events, nextId, nextEid, clock, req, now, profile,
                 event, ncalls, pre, conc, created, seq>>
  /\ UNCHANGED <<audiences, members, reb, resp, spre, dirty>>
  /\ UNCHANGED etlvars

\* time passes
Tick ==
  /\ clock < MaxClock
  /\ clock' = clock + 1
  /\ UNCHANGED <<profiles, events, wr, evs, nextId, nextEid, pc, req, now,
                 profile, event, status, ncalls, pre, conc, created, seq>>
  /\ UNCHANGED audvars
  /\ UNCHANGED etlvars

\* time passes: more than the default recency window
Elapse ==
  /\ clock <= MaxClock
  /\ clock' = clock + DefaultDays + 1
  /\ UNCHANGED <<profiles, events, wr, evs, nextId, nextEid, pc, req, now,
                 profile, event, status, ncalls, pre, conc, created, seq>>
  /\ UNCHANGED audvars
  /\ UNCHANGED etlvars

\* app.post("/audiences"): one INSERT on the pool
CreateAudience(Names, Definitions) ==
  /\ Cardinality(DOMAIN audiences) < MaxAudiences
  /\ \E name \in Names : \E definition \in Definitions :
       IF ~isNonEmptyString(name) \/ ~typeofObject(definition)
       THEN /\ resp' = [op |-> "create", status |-> 400, id |-> 0, rows |-> {}]
            /\ UNCHANGED <<audiences, dirty>>
       ELSE LET id == Cardinality(DOMAIN audiences) + 1
                row == [name |-> name, definition |-> definition, last_built_at |-> NoTime]
            IN /\ audiences' = (id :> row) @@ audiences
               /\ dirty' = (id :> FALSE) @@ dirty
               /\ resp' = [op |-> "create", status |-> 201, id |-> id, rows |-> {}]
  /\ UNCHANGED <<profiles, events, wr, evs, nextId, nextEid, clock, pc, req, now,
                 profile, event, status, ncalls, pre, conc, created, seq>>
  /\ UNCHANGED <<members, aw, reb, spre>>
  /\ UNCHANGED etlvars

\* app.post("/audiences/:id/rebuild"): 400 for an id that is not a number, else BEGIN
BeginRebuild(c, Ids) ==
  \E id \in Ids :
    IF id = NaN
    THEN Arrive(c, Rebuild(id), "done", 400)
    ELSE Arrive(c, Rebuild(id), "aud_select", 0)

\* a SELECT whose empty result is taken for an audience with an empty definition
SelectAudienceNoCheck(c) ==
  /\ pc[c] = "aud_select"
  /\ LET definition == IF req[c].audience_id \in DOMAIN audiences
                        THEN audiences[req[c].audience_id].definition
                        ELSE EmptyDefinition
     IN reb' = [reb EXCEPT ![c] =
                  [id |-> req[c].audience_id,
                   min_total_spend |-> NumberOr(definition.min_total_spend, 0),
                   days_since_last_event |->
                     NumberOr(definition.days_since_last_event, DefaultDays),
                   rowCount |-> 0, rows |-> {}]]
  /\ pc' = [pc EXCEPT ![c] = "aud_delete"]
  /\ UNCHANGED <<profiles, events, wr, evs, nextId, nextEid, clock, req, now,
                 profile, event, status, ncalls, pre, conc, created, seq>>
  /\ UNCHANGED <<audiences, members, aw, resp, spre, dirty>>
  /\ UNCHANGED etlvars

\* SELECT definition FROM audiences WHERE id = $1; 404 after ROLLBACK if no row
SelectAudience(c) ==
  /\ pc[c] = "aud_select"
  /\ IF req[c].audience_id \notin DOMAIN audiences
     THEN /\ status' = [status EXCEPT ![c] = 404]
          /\ pc' = [pc EXCEPT ![c] = "done"]
          /\ UNCHANGED reb
     ELSE LET definition == audiences[req[c].audience_id].definition
          IN /\ reb' = [reb EXCEPT ![c] =
                         [id |-> req[c].audience_id,
                          min_total_spend |-> NumberOr(definition.min_total_spend, 0),
                          days_since_last_event |->
                            NumberOr(definition.days_since_last_event, DefaultDays),
                          rowCount |-> 0, rows |-> {}]]
             /\ pc' = [pc EXCEPT ![c] = "aud_delete"]
             /\ UNCHANGED status
  /\ UNCHANGED <<profiles, events, wr, evs, nextId, nextEid, clock, req, now,
                 profile, event, ncalls, pre, conc, created, seq>>
  /\ UNCHANGED <<audiences, members, aw, resp, spre, dirty>>
  /\ UNCHANGED etlvars

\* a DELETE without its WHERE clause: the rows of every audience
DeleteMembersAll(c) ==
  /\ pc[c] \in {"aud_delete", "aud_delete_wait"}
  /\ LET target == IF pc[c] = "aud_delete"
                   THEN members
                   ELSE aw[c].del
         blocked == \E d \in Clients \ {c} : aw[d].del \cap target \cap members # {}
     IN IF blocked
        THEN /\ pc[c] = "aud_delete"
             /\ aw' = [aw EXCEPT ![c].del = target]
             /\ pc' = [pc EXCEPT ![c] = "aud_delete_wait"]
        ELSE /\ aw' = [aw EXCEPT ![c].del = target \cap members]
             /\ pc' = [pc EXCEPT ![c] = "aud_insert"]
  /\ UNCHANGED <<profiles, events, wr, evs, nextId, nextEid, clock, req, now,
                 profile, event, status, ncalls, pre, conc, created, seq>>
  /\ UNCHANGED <<audiences, members, reb, resp, spre, dirty>>
  /\ UNCHANGED etlvars

\* DELETE FROM audience_members WHERE audience_id = $1: the rows of the
\* statement's snapshot; a row locked by another open transaction blocks the
\* statement, which then deletes the rows of its snapshot that still exist
DeleteMembers(c) ==
  /\ pc[c] \in {"aud_delete", "aud_delete_wait"}
  /\ LET target == IF pc[c] = "aud_delete"
                   THEN {m \in members : m.audience_id = reb[c].id}
                   ELSE aw[c].del
         blocked == \E d \in Clients \ {c} : aw[d].del \cap target \cap members # {}
     IN IF blocked
        THEN /\ pc[c] = "aud_delete"
             /\ aw' = [aw EXCEPT ![c].del = target]
             /\ pc' = [pc EXCEPT ![c] = "aud_delete_wait"]
        ELSE /\ aw' = [aw EXCEPT ![c].del = target \cap members]
             /\ pc' = [pc EXCEPT ![c] = "aud_insert"]
  /\ UNCHANGED <<profiles, events, wr, evs, nextId, nextEid, clock, req, now,
                 profile, event, status, ncalls, pre, conc, created, seq>>
  /\ UNCHANGED <<audiences, members, reb, resp, spre, dirty>>
  /\ UNCHANGED etlvars

\* an INSERT ... SELECT that reads the uncommitted rows of the other transactions
InsertMembersDirty(c) ==
  /\ pc[c] = "aud_insert"
  /\ LET cutoff == clock - reb[c].days_since_last_event
         dirtyRows == [id \in DOMAIN profiles \cup UNION {DOMAIN wr[d] : d \in Clients} |->
                        IF \E d \in Clients : id \in DOMAIN wr[d]
                        THEN wr[CHOOSE d \in Clients : id \in DOMAIN wr[d]][id]
                        ELSE profiles[id]]
         dirtyEvents == events \cup UNION {evs[d] : d \in Clients}
         ids == Qualifying(dirtyRows, dirtyEvents, reb[c].min_total_spend, cutoff)
         wait == \E d \in Clients \ {c} : \E p \in ids :
                   \E m \in aw[d].ins \cup (aw[d].del \cap members) : SameKey(m, reb[c].id, p)
         violation == \E p \in ids : \E m \in members \ aw[c].del : SameKey(m, reb[c].id, p)
     IN /\ ~wait
        /\ IF violation
           THEN /\ pc' = [pc EXCEPT ![c] = "rollback"]
                /\ UNCHANGED <<aw, reb>>
           ELSE /\ aw' = [aw EXCEPT ![c].ins =
                            {[audience_id |-> reb[c].id, profile_id |-> p, added_at |-> now[c]] :
                               p \in ids}]
                /\ reb' = [reb EXCEPT ![c].rowCount = Cardinality(ids), ![c].rows = ids]
                /\ pc' = [pc EXCEPT ![c] = "aud_update"]
  /\ UNCHANGED <<profiles, events, wr, evs, nextId, nextEid, clock, req, now,
                 profile, event, status, ncalls, pre, conc, created, seq>>
  /\ UNCHANGED <<audiences, members, resp, spre, dirty>>
  /\ UNCHANGED etlvars

\* cutoffDate = Date.now() - days; INSERT INTO audience_members ... SELECT ...
\* RETURNING *: a key held by another open transaction blocks the statement, a
\* committed live key is a unique_violation
InsertMembers(c) ==
  /\ pc[c] = "aud_insert"
  /\ LET cutoff == clock - reb[c].days_since_last_event
         ids == Qualifying(profiles, events, reb[c].min_total_spend, cutoff)
         wait == \E d \in Clients \ {c} : \E p \in ids :
                   \E m \in aw[d].ins \cup (aw[d].del \cap members) : SameKey(m, reb[c].id, p)
         violation == \E p \in ids : \E m \in members \ aw[c].del : SameKey(m, reb[c].id, p)
     IN /\ ~wait
        /\ IF violation
           THEN /\ pc' = [pc EXCEPT ![c] = "rollback"]
                /\ UNCHANGED <<aw, reb>>
           ELSE /\ aw' = [aw EXCEPT ![c].ins =
                            {[audience_id |-> reb[c].id, profile_id |-> p, added_at |-> now[c]] :
                               p \in ids}]
                /\ reb' = [reb EXCEPT ![c].rowCount = Cardinality(ids), ![c].rows = ids]
                /\ pc' = [pc EXCEPT ![c] = "aud_update"]
  /\ UNCHANGED <<profiles, events, wr, evs, nextId, nextEid, clock, req, now,
                 profile, event, status, ncalls, pre, conc, created, seq>>
  /\ UNCHANGED <<audiences, members, resp, spre, dirty>>
  /\ UNCHANGED etlvars

\* UPDATE audiences SET last_built_at = NOW() WHERE id = $1
UpdateAudience(c) ==
  /\ pc[c] = "aud_update"
  /\ \A d \in Clients \ {c} : reb[c].id \notin DOMAIN aw[d].aud
  /\ aw' = [aw EXCEPT ![c].aud =
               (reb[c].id :> [audiences[reb[c].id] EXCEPT !.last_built_at = now[c]])]
  /\ pc' = [pc EXCEPT ![c] = "commit"]
  /\ UNCHANGED <<profiles, events, wr, evs, nextId, nextEid, clock, req, now,
                 profile, event, status, ncalls, pre, conc, created, seq>>
  /\ UNCHANGED <<audiences, members, reb, resp, spre, dirty>>
  /\ UNCHANGED etlvars

\* app.get("/audiences/:id/export"): one SELECT on the pool (the profile ids
\* of the CSV lines)
ExportDirty(Ids) ==
  /\ \E id \in Ids :
       IF id = NaN
       THEN resp' = [op |-> "export", status |-> 400, id |-> id, rows |-> {}]
       ELSE LET seen == (members \ UNION {aw[c].del : c \in Clients})
                           \cup UNION {aw[c].ins : c \in Clients}
            IN resp' = [op |-> "export", status |-> 200, id |-> id,
                        rows |-> {m.profile_id : m \in {x \in seen : x.audience_id = id}}]
  /\ UNCHANGED <<profiles, events, wr, evs, nextId, nextEid, clock, pc, req, now,
                 profile, event, status, ncalls, pre, conc, created, seq>>
  /\ UNCHANGED <<audiences, members, aw, reb, spre, dirty>>
  /\ UNCHANGED etlvars
Export(Ids) ==
  /\ \E id \in Ids :
       IF id = NaN
       THEN resp' = [op |-> "export", status |-> 400, id |-> id, rows |-> {}]
       ELSE resp' = [op |-> "export", status |-> 200, id |-> id,
                     rows |-> {m.profile_id :
                                 m \in {x \in members : x.audience_id = id
                                                         /\ x.profile_id \in DOMAIN profiles}}]
  /\ UNCHANGED <<profiles, events, wr, evs, nextId, nextEid, clock, pc, req, now,
                 profile, event, status, ncalls, pre, conc, created, seq>>
  /\ UNCHANGED <<audiences, members, aw, reb, spre, dirty>>
  /\ UNCHANGED etlvars

\* a statement of c's transaction throws (the store fails): catch block
Fail(c) ==
  /\ pc[c] \notin {"idle", "done", "rollback"}
  /\ pc' = [pc EXCEPT ![c] = "rollback"]
  /\ UNCHANGED <<profiles, events, wr, evs, nextId, nextEid, clock, req, now,
                 profile, event, status, ncalls, pre, conc, created, seq>>
  /\ UNCHANGED audvars
  /\ UNCHANGED etlvars

Next ==
  \/ \E c \in Clients : BeginIdentify(c, IdentifyReqs)
  \/ \E c \in Clients : BeginTrack(c, TrackReqs)
  \/ \E c \in Clients : Lookup(c)
  \/ \E c \in Clients : InsertProfile(c)
  \/ \E c \in Clients : UpdateProfile(c)
  \/ \E c \in Clients : InsertEvent(c)
  \/ \E c \in Clients : UpdateAggregates(c)
  \/ \E c \in Clients : Commit(c)
  \/ \E c \in Clients : Rollback(c)

\* concurrent /identify and /track requests
Spec == Init /\ [][Next]_vars

SeqClients == {1}

NextSeq ==
  \/ \E c \in SeqClients : BeginIdentify(c, SeqIdentifyReqs)
  \/ \E c \in SeqClients : BeginTrack(c, SeqTrackReqs)
  \/ \E c \in SeqClients : Lookup(c)
  \/ \E c \in SeqClients : InsertProfile(c)
  \/ \E c \in SeqClients : UpdateProfile(c)
  \/ \E c \in SeqClients : InsertEvent(c)
  \/ \E c \in SeqClients : UpdateAggregates(c)
  \/ \E c \in SeqClients : Commit(c)
  \/ \E c \in SeqClients : Rollback(c)
  \/ Tick

\* one request at a time, with time passing
SpecSeq == Init /\ [][NextSeq]_vars

NextAgg ==
  \/ \E c \in Clients : BeginTrack(c, AggTrackReqs)
  \/ \E c \in Clients : Lookup(c)
  \/ \E c \in Clients : InsertProfile(c)
  \/ \E c \in Clients : InsertEvent(c)
  \/ \E c \in Clients : UpdateAggregates(c)
  \/ \E c \in Clients : Commit(c)
  \/ \E c \in Clients : Rollback(c)

\* concurrent purchases
SpecAgg == Init /\ [][NextAgg]_vars

NextTraits ==
  \/ \E c \in SeqClients : BeginIdentify(c, TraitsIdentifyReqs)
  \/ \E c \in SeqClients : Lookup(c)
  \/ \E c \in SeqClients : InsertProfile(c)
  \/ \E c \in SeqClients : UpdateProfile(c)
  \/ \E c \in SeqClients : Commit(c)
  \/ \E c \in SeqClients : Rollback(c)
  \/ Tick

\* one /identify at a time, with trait payloads
SpecTraits == Init /\ [][NextTraits]_vars

NextPurchase ==
  \/ \E c \in SeqClients : BeginIdentify(c, PurchaseIdentifyReqs)
  \/ \E c \in SeqClients : BeginTrack(c, PurchaseTrackReqs)
  \/ \E c \in SeqClients : Lookup(c)
  \/ \E c \in SeqClients : InsertProfile(c)
  \/ \E c \in SeqClients : UpdateProfile(c)
  \/ \E c \in SeqClients : InsertEvent(c)
  \/ \E c \in SeqClients : UpdateAggregates(c)
  \/ \E c \in SeqClients : Commit(c)
  \/ \E c \in SeqClients : Rollback(c)
  \/ Tick

\* one request at a time: purchases with every kind of amount
SpecPurchase == Init /\ [][NextPurchase]_vars

NextAud ==
  \/ \E c \in SeqClients : BeginIdentify(c, AudIdentifyReqs)
  \/ \E c \in SeqClients : BeginTrack(c, AudTrackReqs)
  \/ \E c \in SeqClients : BeginRebuild(c, AudIds)
  \/ \E c \in SeqClients : Lookup(c)
  \/ \E c \in SeqClients : InsertProfile(c)
  \/ \E c \in SeqClients : UpdateProfile(c)
  \/ \E c \in SeqClients : InsertEvent(c)
  \/ \E c \in SeqClients : UpdateAggregates(c)
  \/ \E c \in SeqClients : SelectAudience(c)
  \/ \E c \in SeqClients : DeleteMembers(c)
  \/ \E c \in SeqClients : InsertMembers(c)
  \/ \E c \in SeqClients : UpdateAudience(c)
  \/ \E c \in SeqClients : Commit(c)
  \/ \E c \in SeqClients : Rollback(c)
  \/ \E c \in SeqClients : Fail(c)
  \/ CreateAudience(AudNames, AudDefinitions)
  \/ Elapse

\* audiences: one request at a time, store failures, time passing
SpecAud == Init /\ [][NextAud]_vars

NextExport ==
  \/ \E c \in SeqClients : BeginTrack(c, AudTrackReqs)
  \/ \E c \in SeqClients : BeginRebuild(c, AudIds)
  \/ \E c \in SeqClients : Lookup(c)
  \/ \E c \in SeqClients : InsertProfile(c)
  \/ \E c \in SeqClients : InsertEvent(c)
  \/ \E c \in SeqClients : UpdateAggregates(c)
  \/ \E c \in SeqClients : SelectAudience(c)
  \/ \E c \in SeqClients : DeleteMembers(c)
  \/ \E c \in SeqClients : InsertMembers(c)
  \/ \E c \in SeqClients : UpdateAudience(c)
  \/ \E c \in SeqClients : Commit(c)
  \/ \E c \in SeqClients : Rollback(c)
  \/ \E c \in SeqClients : Fail(c)
  \/ CreateAudience({"vip"}, {EmptyDefinition, Definition(10000, 1)})
  \/ Export(AudIds)
  \/ Elapse

\* a reader of audience members while requests are served
SpecExport == Init /\ [][NextExport]_vars

\* ---------------------------------------------------------------- properties
IdKinds == {"user_id", "email", "anonymous_id"}

Supplied(v) == v \notin {NULL, "", " "}

Done(c) == pc[c] = "done"

\* the requests of c and d ran concurrently, and no third one with them
Overlapped(c, d) == c # d /\ d \in conc[c] /\ c \in conc[d]
Raced(c, d) == Overlapped(c, d) /\ conc[c] = {d} /\ conc[d] = {c}

Owners(rows, k, v) == {id \in DOMAIN rows : rows[id][k] = v}

\* the profile the precedence user_id > email > anonymous_id selects in rows
\* for request r (a set of ids: empty when the request matches no profile)
Resolved(rows, r) ==
  IF Supplied(r.user_id) /\ Owners(rows, "user_id", r.user_id) # {}
  THEN Owners(rows, "user_id", r.user_id)
  ELSE IF Supplied(r.email) /\ Owners(rows, "email", r.email) # {}
  THEN Owners(rows, "email", r.email)
  ELSE IF Supplied(r.anonymous_id)
  THEN Owners(rows, "anonymous_id", r.anonymous_id)
  ELSE {}

\* C1: in every reachable state, no two distinct profiles hold the same
\* non-null email and no two distinct profiles hold the same non-null user_id
C1_UniqueEmailAndUserId ==
  \A i \in DOMAIN profiles : \A j \in DOMAIN profiles :
    i # j =>
      /\ profiles[i].email = NULL \/ profiles[i].email # profiles[j].email
      /\ profiles[i].user_id = NULL \/ profiles[i].user_id # profiles[j].user_id

\* a request was refused by a unique index while two profiles are stored
C1_Witness ==
  /\ Cardinality(DOMAIN profiles) >= 2
  /\ \E c \in Clients : Done(c) /\ status[c] = 500

\* c and d ran concurrently, with no third request, and this step ends the
\* second of the two
BothFinish(c, d) ==
  /\ c # d /\ conc'[c] = {d} /\ conc'[d] = {c}
  /\ pc'[c] = "done" /\ pc'[d] = "done"
  /\ ~(Done(c) /\ Done(d))

\* C2: two /identify requests that run concurrently with the same email, which
\* no profile owned when they arrived, leave exactly one profile owning it
\* when both have finished
C2_OneProfilePerRacedEmail ==
  [][\A c \in Clients : \A d \in Clients :
       ( /\ BothFinish(c, d)
         /\ req[c].op = "identify" /\ req[d].op = "identify"
         /\ Supplied(req[c].email) /\ req[c].email = req[d].email
         /\ Owners(pre[c], "email", req[c].email) = {}
         /\ Owners(pre[d], "email", req[c].email) = {} )
       => Cardinality(Owners(profiles', "email", req[c].email)) = 1]_vars

\* both requests found no profile and tried to insert one: one was refused
C2_Witness ==
  \E c \in Clients : \E d \in Clients :
    /\ Raced(c, d) /\ Done(c) /\ Done(d)
    /\ req[c].op = "identify" /\ req[d].op = "identify"
    /\ Supplied(req[c].email) /\ req[c].email = req[d].email
    /\ Owners(pre[c], "email", req[c].email) = {}
    /\ Owners(pre[d], "email", req[c].email) = {}
    /\ created[c].id # 0 /\ status[c] = 200
    /\ profile[d].id = 0 /\ status[d] = 500

\* C3 (as claimed): the /identify request that loses the race to create the
\* profile of a new email or user_id answers 200 with the profile the winner created
C3_LoserRecovers ==
  \A c \in Clients : \A d \in Clients :
    ( /\ Overlapped(c, d) /\ Done(c) /\ Done(d)
      /\ req[c].op = "identify" /\ req[d].op = "identify"
      /\ created[d].id # 0 /\ status[d] = 200
      /\ created[c].id = 0 /\ Resolved(pre[c], req[c]) = {}
      /\ \E k \in {"email", "user_id"} :
           Supplied(req[c][k]) /\ req[c][k] = created[d][k] )
    => status[c] = 200 /\ profile[c].id = created[d].id

\* C4 (as claimed): of two concurrent requests that supply the same identifier,
\* of any kind, that no profile held before, at most one creates a profile
C4_OneCreatorPerIdentifier ==
  \A c \in Clients : \A d \in Clients :
    ( /\ Overlapped(c, d) /\ Done(c) /\ Done(d)
      /\ status[c] = 200 /\ status[d] = 200
      /\ \E k \in IdKinds :
           /\ Supplied(req[c][k]) /\ req[c][k] = req[d][k]
           /\ Owners(pre[c], k, req[c][k]) = {}
           /\ Owners(pre[d], k, req[c][k]) = {} )
    => ~(created[c].id # 0 /\ created[d].id # 0)

\* the request of the two that arrived last
Later(c, d) == IF seq[c] > seq[d] THEN c ELSE d

\* C5: two concurrent /track purchases of positive amounts on the same existing
\* profile raise its total_spend by the sum of the amounts and its total_orders
\* by 2 (from the later arrival to the moment both have committed)
C5_NoLostUpdate ==
  [][\A c \in Clients : \A d \in Clients :
       ( /\ BothFinish(c, d)
         /\ status'[c] = 200 /\ status'[d] = 200
         /\ req[c].op = "track" /\ req[d].op = "track"
         /\ IsPurchase(event[c]) /\ IsPurchase(event[d])
         /\ profile[c].id = profile[d].id
         /\ profile[c].id \in DOMAIN pre[c] /\ profile[c].id \in DOMAIN pre[d] )
       => LET before == pre[Later(c, d)][profile[c].id]
              after == profiles'[profile[c].id]
          IN /\ after.total_spend * 10 =
                  before.total_spend * 10 + event[c].amount.n + event[d].amount.n
             /\ after.total_orders = before.total_orders + 2]_vars

\* two purchases of an existing profile overlapped and both committed
C5_Witness ==
  \E c \in Clients : \E d \in Clients :
    /\ Raced(c, d) /\ Done(c) /\ Done(d)
    /\ status[c] = 200 /\ status[d] = 200
    /\ IsPurchase(event[c]) /\ IsPurchase(event[d])
    /\ profile[c].id = profile[d].id
    /\ profile[c].id \in DOMAIN pre[c] /\ profile[c].id \in DOMAIN pre[d]
    /\ event[c].amount.n # event[d].amount.n

\* C6: a request served alone selects the profile found by user_id, else the
\* one found by email, else one found by anonymous_id, and inserts a profile
\* only if none of the three finds one
C6_Precedence ==
  \A c \in Clients :
    (Done(c) /\ status[c] \in {200, 500} /\ conc[c] = {})
    => LET found == Resolved(pre[c], req[c])
       IN IF found # {}
          THEN profile[c].id \in found /\ created[c].id = 0
          ELSE IF HasIdentifier(req[c])
          THEN created[c].id # 0 /\ profile[c].id = created[c].id
          ELSE created[c].id = 0 /\ profile[c].id = 0

\* a request with a user_id and an email owned by two different profiles
\* selected the owner of the user_id
C6_Witness ==
  \E c \in Clients :
    /\ Done(c) /\ conc[c] = {} /\ status[c] \in {200, 500}
    /\ Supplied(req[c].user_id) /\ Supplied(req[c].email)
    /\ \E i \in Owners(pre[c], "user_id", req[c].user_id) :
       \E j \in Owners(pre[c], "email", req[c].email) :
         i # j /\ profile[c].id = i

FirstSupplied(r) ==
  IF Supplied(r.user_id) THEN r.user_id
  ELSE IF Supplied(r.email) THEN r.email
  ELSE r.anonymous_id

\* C7: the row a request inserts has the first non-empty of user_id, email,
\* anonymous_id as primary_identifier, exactly the non-empty supplied
\* identifiers, first_seen_at = last_seen_at and zero aggregates; a request
\* served alone that inserts adds exactly that one row
C7_CreatedProfile ==
  \A c \in Clients :
    created[c].id # 0 =>
      /\ \E k \in IdKinds : Supplied(req[c][k])
      /\ created[c].primary_identifier = FirstSupplied(req[c])
      /\ \A k \in IdKinds :
           created[c][k] = (IF Supplied(req[c][k]) THEN req[c][k] ELSE NULL)
      /\ created[c].first_seen_at = created[c].last_seen_at
      /\ created[c].total_orders = 0 /\ created[c].total_spend = 0
      /\ (Done(c) /\ status[c] = 200 /\ conc[c] = {}) =>
           (DOMAIN profiles) \ (DOMAIN pre[c]) = {created[c].id}

\* a /track request with a blank email and two usable identifiers inserted a
\* profile after the clock had moved
C7_Witness ==
  \E c \in Clients :
    /\ Done(c) /\ status[c] = 200 /\ created[c].id # 0
    /\ req[c].op = "track" /\ req[c].email = " "
    /\ Supplied(req[c].user_id) /\ Supplied(req[c].anonymous_id)
    /\ created[c].first_seen_at > 0

\* C8 (as claimed): no step replaces a non-null email, user_id or
\* anonymous_id of a stored profile by another value
C8_IdentifierNeverReplaced ==
  [][\A id \in DOMAIN profiles : \A k \in IdKinds :
       profiles[id][k] # NULL =>
         id \in DOMAIN profiles' /\ profiles'[id][k] = profiles[id][k]]_vars

\* C9: once an identifier field of a stored profile is non-null, it is non-null
\* in every later state
C9_IdentifierNeverCleared ==
  [][\A id \in DOMAIN profiles : \A k \in IdKinds :
       profiles[id][k] # NULL =>
         id \in DOMAIN profiles' /\ profiles'[id][k] # NULL]_vars

\* an /identify request that did not supply an identifier the matched profile
\* holds has committed its update
C9_Witness ==
  \E c \in Clients :
    /\ Done(c) /\ status[c] = 200 /\ req[c].op = "identify"
    /\ profile[c].id \in DOMAIN pre[c]
    /\ \E k \in IdKinds :
         /\ ~Supplied(req[c][k])
         /\ pre[c][profile[c].id][k] # NULL
         /\ profiles[profile[c].id][k] # NULL

\* C10 (as claimed): when a request that matched a stored profile commits,
\* every identifier it supplied of a kind that was null on that profile is on
\* the profile
C10_BackfillOnMatch ==
  [][\A c \in Clients :
       ( /\ pc[c] = "commit" /\ pc'[c] = "done"
         /\ profile[c].id \in DOMAIN profiles )
       => \A k \in IdKinds :
            (Supplied(req[c][k]) /\ profiles[profile[c].id][k] = NULL)
            => profiles'[profile[c].id][k] = req[c][k]]_vars

\* the fields of a profile row that C11 speaks of
Kept(row) ==
  <<row.email, row.user_id, row.anonymous_id, row.traits, row.total_orders, row.total_spend>>

Candidates(c) ==
  LET kind == LookupOrder[LookupIndex(pc[c])]
  IN {id \in DOMAIN Visible(c) : Visible(c)[id][kind] = req[c][kind]}

\* C12 (as claimed): the store and the supplied identifiers determine the
\* profile a lookup selects: the SELECT a handler is about to execute never
\* returns more than one row to choose from
C12_ResolutionDeterministic ==
  \A c \in Clients :
    pc[c] \in {LookupPc[k] : k \in 1..3} => Cardinality(Candidates(c)) <= 1

\* C13: an /identify request whose email, user_id and anonymous_id are all
\* absent, empty or blank is answered 400 at once: it opens no transaction,
\* inserts no profile and leaves the profiles and the events as they were
C13_MissingIdentifierRejected ==
  [][\A c \in Clients :
       ( /\ seq'[c] # seq[c] /\ req'[c].op = "identify"
         /\ \A k \in IdKinds : ~Supplied(req'[c][k]) )
       => /\ status'[c] = 400 /\ pc'[c] = "done"
          /\ profiles' = profiles /\ events' = events
          /\ wr' = wr /\ evs' = evs /\ nextId' = nextId]_vars

\* a request with only blank identifiers was refused while a profile is stored
C13_Witness ==
  \E c \in Clients :
    /\ Done(c) /\ status[c] = 400 /\ req[c].op = "identify"
    /\ req[c].email = " " /\ req[c].anonymous_id = "" /\ req[c].user_id = NULL
    /\ profiles # NoRows /\ profiles = pre[c]

\* C14 (as claimed): a /track request that supplies no usable identifier is
\* refused with an error and no event of it is stored (the request body has
\* no field by which a caller allows an anonymous event)
C14_AnonymousTrackRejected ==
  \A c \in Clients :
    ( /\ Done(c) /\ req[c].op = "track"
      /\ \A k \in IdKinds : ~Supplied(req[c][k]) )
    => /\ status[c] = 400
       /\ event[c].id = 0
       /\ \A ev \in events : ev.id # event[c].id

\* C15: the event a /track handler inserted has a null profile_id exactly when
\* the request supplied no usable email, user_id or anonymous_id; otherwise it
\* carries the id of the profile the handler selected (for a request served
\* alone, the one the precedence selects) or inserted; the event is in the
\* log once the request has committed
C15_EventProfileLink ==
  \A c \in Clients :
    event[c].id # 0 =>
      /\ req[c].op = "track"
      /\ event[c].profile_id = 0 <=> (\A k \in IdKinds : ~Supplied(req[c][k]))
      /\ event[c].profile_id = profile[c].id
      /\ event[c].profile_id # 0 =>
            \/ event[c].profile_id = created[c].id
            \/ /\ created[c].id = 0
               /\ conc[c] = {} => event[c].profile_id \in Resolved(pre[c], req[c])
      /\ (Done(c) /\ status[c] = 200) =>
            /\ event[c] \in events
            /\ event[c].profile_id # 0 => event[c].profile_id \in DOMAIN profiles

\* the log holds an event without a profile and the committed event of a
\* request that supplied only an anonymous_id and a blank email
C15_Witness ==
  \E c \in Clients :
    /\ Done(c) /\ status[c] = 200 /\ event[c].id # 0
    /\ req[c].email = " " /\ req[c].user_id = NULL /\ Supplied(req[c].anonymous_id)
    /\ event[c].profile_id # 0
    /\ \E ev \in events : ev.profile_id = 0

\* C17: no step changes the primary_identifier or the first_seen_at of a
\* stored profile, and no step removes a stored profile
C17_CreationFieldsFrozen ==
  [][\A id \in DOMAIN profiles :
       /\ id \in DOMAIN profiles'
       /\ profiles'[id].primary_identifier = profiles[id].primary_identifier
       /\ profiles'[id].first_seen_at = profiles[id].first_seen_at]_vars

\* an /identify request that arrived after the clock moved, with a user_id
\* that is not the primary_identifier of the profile it matched, has committed
\* its update of the profile, and a /track request has updated a profile too
C17_Witness ==
  \E c \in Clients :
    /\ Done(c) /\ status[c] = 200 /\ req[c].op = "identify"
    /\ profile[c].id \in DOMAIN pre[c]
    /\ Supplied(req[c].user_id)
    /\ profiles[profile[c].id].user_id = req[c].user_id
    /\ profiles[profile[c].id].primary_identifier # req[c].user_id
    /\ profiles[profile[c].id].last_seen_at > profiles[profile[c].id].first_seen_at
    /\ \E ev \in events : ev.profile_id # 0

\* C18: when an /identify request that matched a stored profile has
\* committed, the traits of that profile hold every key of the payload with
\* the payload's value and every other key they held before with its old
\* value, and no profile was added; a request that matched none adds one
\* profile, with the payload as traits
C18_TraitsMergedShallowly ==
  \A c \in Clients :
    (Done(c) /\ status[c] = 200 /\ req[c].op = "identify" /\ conc[c] = {})
    => LET id == profile[c].id
           new == req[c].traits.val
           now_ == profiles[id].traits
       IN IF id \in DOMAIN pre[c]
          THEN LET old == pre[c][id].traits
               IN /\ DOMAIN profiles = DOMAIN pre[c]
                  /\ DOMAIN now_ = (DOMAIN old) \cup (DOMAIN new)
                  /\ \A k \in DOMAIN new : now_[k] = new[k]
                  /\ \A k \in (DOMAIN old) \ (DOMAIN new) : now_[k] = old[k]
          ELSE /\ DOMAIN profiles = (DOMAIN pre[c]) \cup {id}
               /\ DOMAIN now_ = DOMAIN new
               /\ \A k \in DOMAIN new : now_[k] = new[k]

\* the third /identify of user u1 sent {a: 2} to the profile holding
\* {a: 1, b: 2}: the one profile now holds {a: 2, b: 2}
C18_Witness ==
  \E c \in Clients :
    /\ Done(c) /\ status[c] = 200 /\ req[c].op = "identify"
    /\ profile[c].id \in DOMAIN pre[c]
    /\ DOMAIN pre[c][profile[c].id].traits = {"a", "b"}
    /\ pre[c][profile[c].id].traits["a"] = 1
    /\ DOMAIN req[c].traits.val = {"a"}
    /\ req[c].traits.val["a"] = 2
    /\ Cardinality(DOMAIN profiles) = 1
    /\ DOMAIN profiles[profile[c].id].traits = {"a", "b"}
    /\ profiles[profile[c].id].traits["a"] = 2
    /\ profiles[profile[c].id].traits["b"] = 2

\* C16 (as claimed): no step lowers the last_seen_at of a stored profile
C16_LastSeenNeverDecreases ==
  [][\A id \in DOMAIN profiles :
       id \in DOMAIN profiles' =>
         profiles'[id].last_seen_at >= profiles[id].last_seen_at]_vars

\* a committed /track request, served alone, of a purchase (in any letter
\* case) with a number greater than 0 as amount, that has a profile
PurchaseDone(c) ==
  /\ Done(c) /\ status[c] = 200 /\ req[c].op = "track" /\ conc[c] = {}
  /\ req[c].event_type \in {"purchase", "Purchase", "PURCHASE"}
  /\ req[c].amount.t = "number" /\ req[c].amount.n > 0
  /\ profile[c].id # 0

\* the profile of c's request as it was before the request
Before(c) ==
  IF profile[c].id \in DOMAIN pre[c] THEN pre[c][profile[c].id] ELSE created[c]

OthersKeepAggregates(c) ==
  \A j \in (DOMAIN pre[c]) \ {profile[c].id} :
    /\ profiles[j].total_orders = pre[c][j].total_orders
    /\ profiles[j].total_spend = pre[c][j].total_spend

\* C19 (as claimed): such a request raises total_orders of its profile by 1
\* and total_spend by exactly amount (total_spend in hundredths, amount in
\* thousandths), and changes the aggregates of no other profile
C19_ExactAmount ==
  \A c \in Clients :
    PurchaseDone(c) =>
      /\ profiles[profile[c].id].total_orders = Before(c).total_orders + 1
      /\ profiles[profile[c].id].total_spend * 10 =
           Before(c).total_spend * 10 + req[c].amount.n
      /\ OthersKeepAggregates(c)

\* C19 (amended): such a request raises total_orders of its profile by 1 and
\* total_spend by amount rounded to two fraction digits, halves upwards (so by
\* exactly amount when it has no more than two), and changes the aggregates of
\* no other profile
C19_RoundedAmount ==
  \A c \in Clients :
    PurchaseDone(c) =>
      LET d == profiles[profile[c].id].total_spend - Before(c).total_spend
          n == req[c].amount.n
      IN /\ profiles[profile[c].id].total_orders = Before(c).total_orders + 1
         /\ 10 * d - 5 <= n /\ n < 10 * d + 5
         /\ n % 10 = 0 => 10 * d = n
         /\ OthersKeepAggregates(c)

\* a purchase of 0.005 raised a total_spend of 59.99 to 60.00 while another
\* profile holds 10.00
C19_Witness ==
  \E c \in Clients :
    /\ PurchaseDone(c) /\ req[c].amount.n = 5
    /\ profile[c].id \in DOMAIN pre[c]
    /\ pre[c][profile[c].id].total_spend = 5999
    /\ profiles[profile[c].id].total_spend = 6000
    /\ \E j \in DOMAIN profiles : j # profile[c].id /\ profiles[j].total_spend = 1000

\* C20 (as claimed): a committed /track request of a purchase whose amount is
\* missing, not a number, zero or negative leaves total_orders and total_spend
\* of its profile as they were, and its one event is in the log
C20_BadAmountIgnored ==
  \A c \in Clients :
    ( /\ Done(c) /\ status[c] # 400 /\ req[c].op = "track" /\ conc[c] = {}
      /\ req[c].event_type \in {"purchase", "Purchase", "PURCHASE"}
      /\ ~(req[c].amount.t = "number" /\ req[c].amount.n > 0)
      /\ profile[c].id # 0 )
    => /\ status[c] = 200
       /\ profiles[profile[c].id].total_orders = Before(c).total_orders
       /\ profiles[profile[c].id].total_spend = Before(c).total_spend
       /\ event[c].id # 0
       /\ {ev \in events : ev.id >= event[c].id} = {event[c]}

\* C21: a committed /track request, served alone, whose event_type is not
\* "purchase" in any letter case leaves total_orders and total_spend of its
\* profile as they were and leaves last_seen_at at the later of its previous
\* value and the event's occurred_at
C21_NonPurchaseFrame ==
  \A c \in Clients :
    ( /\ Done(c) /\ status[c] = 200 /\ req[c].op = "track" /\ conc[c] = {}
      /\ req[c].event_type \notin {"purchase", "Purchase", "PURCHASE"}
      /\ profile[c].id # 0 )
    => LET after == profiles[profile[c].id]
       IN /\ after.total_orders = Before(c).total_orders
          /\ after.total_spend = Before(c).total_spend
          /\ after.last_seen_at >= Before(c).last_seen_at
          /\ after.last_seen_at >= event[c].occurred_at
          /\ after.last_seen_at \in {Before(c).last_seen_at, event[c].occurred_at}

\* a page view with an occurred_at earlier than the last_seen_at of its
\* profile, which has an order, was committed
C21_Witness ==
  \E c \in Clients :
    /\ Done(c) /\ status[c] = 200 /\ req[c].op = "track"
    /\ req[c].event_type = "page_view"
    /\ profile[c].id \in DOMAIN pre[c]
    /\ pre[c][profile[c].id].total_orders > 0
    /\ event[c].occurred_at < pre[c][profile[c].id].last_seen_at
    /\ profiles[profile[c].id].last_seen_at = pre[c][profile[c].id].last_seen_at

\* the logged purchase events of profile p with a number greater than 0 as amount
LoggedPurchases(p) ==
  {ev \in events :
     /\ ev.profile_id = p
     /\ ev.event_type \in {"purchase", "Purchase", "PURCHASE"}
     /\ ev.amount.t = "number" /\ ev.amount.n > 0}

\* the sum of the amounts (in thousandths) of a set of events
RECURSIVE SumOfAmounts(_)
SumOfAmounts(S) ==
  IF S = {} THEN 0
  ELSE LET ev == CHOOSE x \in S : TRUE
       IN ev.amount.n + SumOfAmounts(S \ {ev})

\* C22 (as claimed): in every committed state the total_spend of every profile
\* is the exact sum of the amounts of its logged purchase events with a
\* positive amount, and its total_orders is the number of those events
C22_AggregatesEqualReplay ==
  \A p \in DOMAIN profiles :
    /\ profiles[p].total_spend * 10 = SumOfAmounts(LoggedPurchases(p))
    /\ profiles[p].total_orders = Cardinality(LoggedPurchases(p))

\* C23: a request in which a store call failed ends with an error and with the
\* committed tables as they were when it arrived (requests are served one at a
\* time), and no step of a transaction but its COMMIT changes a committed table
C23_AllOrNothing ==
  [][/\ \A c \in Clients :
          (pc[c] = "rollback" /\ pc'[c] = "done") =>
            /\ status'[c] = 500
            /\ profiles' = pre[c]
            /\ events' = spre[c].events
            /\ members' = spre[c].members
            /\ \A a \in DOMAIN spre[c].audiences : audiences'[a] = spre[c].audiences[a]
            /\ wr'[c] = NoRows /\ evs'[c] = {} /\ aw'[c] = NoWrites
     /\ (\A c \in Clients : ~(pc[c] = "commit" /\ pc'[c] = "done")) =>
          ( /\ profiles' = profiles /\ events' = events /\ members' = members
            /\ \A a \in DOMAIN audiences : audiences'[a] = audiences[a] )]_vars

\* a rebuild failed after it had deleted the members of its audience and
\* inserted others: the committed members are those of before
C23_Witness ==
  \E c \in Clients :
    /\ Done(c) /\ status[c] = 500 /\ req[c].op = "rebuild"
    /\ reb[c].rowCount > 0
    /\ members # {} /\ members = spre[c].members

\* a committed rebuild, served alone
RebuildDone(c) ==
  Done(c) /\ status[c] = 200 /\ req[c].op = "rebuild" /\ conc[c] = {}

\* the profile ids of the committed members of audience a
MemberIds(a) == {m.profile_id : m \in {x \in members : x.audience_id = a}}

\* the profiles that own an event with occurred_at >= t
OwnersSince(t) == {p \in DOMAIN profiles : \E ev \in events : ev.profile_id = p /\ ev.occurred_at >= t}

\* the times at which c's request may have read the clock
Times(c) == {now[c], clock}

\* C24 (as claimed): after a committed rebuild of an audience whose definition
\* gives min_total_spend >= 0 and days_since_last_event >= 0 (0 included), its
\* members are exactly the profiles with total_spend >= min_total_spend that
\* own an event with occurred_at >= now - days_since_last_event
C24_MembershipRule ==
  \A c \in Clients :
    RebuildDone(c) =>
      LET definition == audiences[req[c].audience_id].definition
      IN (definition.min_total_spend >= 0 /\ definition.days_since_last_event >= 0)
         => \E t \in Times(c) :
              MemberIds(req[c].audience_id) =
                {p \in OwnersSince(t - definition.days_since_last_event) :
                   profiles[p].total_spend >= definition.min_total_spend}

\* C25: in every state, every committed member of every audience is a profile
\* that owns at least one logged event
C25_NoEventNoMembership ==
  \A m \in members : \E ev \in events : ev.profile_id = m.profile_id

\* a rebuild of an audience with an empty definition was committed while a
\* profile without events is stored: it is no member, another profile is
C25_Witness ==
  \E c \in Clients :
    /\ RebuildDone(c)
    /\ audiences[req[c].audience_id].definition = EmptyDefinition
    /\ MemberIds(req[c].audience_id) # {}
    /\ \E p \in DOMAIN profiles :
         /\ p \notin MemberIds(req[c].audience_id)
         /\ \A ev \in events : ev.profile_id # p

\* C26 (as claimed): a committed rebuild of an audience with an empty
\* definition leaves as members exactly the profiles that own an event
C26_EmptyDefinitionAllOwners ==
  \A c \in Clients :
    (RebuildDone(c) /\ audiences[req[c].audience_id].definition = EmptyDefinition)
    => MemberIds(req[c].audience_id) =
         {p \in DOMAIN profiles : \E ev \in events : ev.profile_id = p}

\* C26 (amended): a committed rebuild of an audience whose definition omits
\* days_since_last_event leaves as members exactly the profiles with
\* total_spend >= min_total_spend (0 when omitted) that own an event with
\* occurred_at no earlier than 36500 days before the rebuild
C26_DefaultWindow ==
  \A c \in Clients :
    RebuildDone(c) =>
      LET definition == audiences[req[c].audience_id].definition
          min == IF definition.min_total_spend = NoNumber THEN 0
                 ELSE definition.min_total_spend
      IN definition.days_since_last_event = NoNumber
         => \E t \in Times(c) :
              MemberIds(req[c].audience_id) =
                {p \in OwnersSince(t - 36500) : profiles[p].total_spend >= min}

\* an audience with an empty definition was rebuilt when one profile had its
\* only event more than 36500 days ago and another had a recent one
C26_Witness ==
  \E c \in Clients :
    /\ RebuildDone(c)
    /\ audiences[req[c].audience_id].definition = EmptyDefinition
    /\ MemberIds(req[c].audience_id) # {}
    /\ \E p \in DOMAIN profiles :
         /\ p \notin MemberIds(req[c].audience_id)
         /\ \E ev \in events : ev.profile_id = p

\* this step commits a rebuild, served alone, of an audience that was rebuilt
\* before, and no /identify or /track request has committed since
RebuildsAgain(c) ==
  /\ pc[c] = "commit" /\ pc'[c] = "done"
  /\ req[c].op = "rebuild" /\ conc[c] = {}
  /\ audiences[req[c].audience_id].last_built_at # NoTime
  /\ ~dirty[req[c].audience_id]

\* C27 (as claimed): the second of two rebuilds of an audience with no
\* /identify, /track or audience change in between commits the same set of
\* member profile ids as the first
C27_RebuildIdempotent ==
  [][\A c \in Clients :
       RebuildsAgain(c) =>
         MemberIds(req[c].audience_id)' = MemberIds(req[c].audience_id)]_vars

\* C27 (amended): the second of two such rebuilds commits a subset of the
\* member profile ids of the first, and the same set when no time has passed
\* since the first rebuild began
C27_RebuildIdempotentInTime ==
  [][\A c \in Clients :
       RebuildsAgain(c) =>
         /\ MemberIds(req[c].audience_id)' \subseteq MemberIds(req[c].audience_id)
         /\ clock = audiences[req[c].audience_id].last_built_at =>
              MemberIds(req[c].audience_id)' = MemberIds(req[c].audience_id)]_vars

\* an audience with a member was rebuilt a second time, at the time of the
\* first rebuild and on the same profiles and events: it has the same member
C27_Witness ==
  \E c \in Clients :
    /\ RebuildDone(c)
    /\ req[c].audience_id \in DOMAIN spre[c].audiences
    /\ spre[c].audiences[req[c].audience_id].last_built_at = clock
    /\ spre[c].events = events /\ pre[c] = profiles
    /\ MemberIds(req[c].audience_id) # {}
    /\ MemberIds(req[c].audience_id) =
         {m.profile_id : m \in {x \in spre[c].members : x.audience_id = req[c].audience_id}}

\* the profile ids of the members of audience a in a set of rows
IdsOf(rows, a) == {m.profile_id : m \in {x \in rows : x.audience_id = a}}

\* c serves a rebuild of audience a that has not ended
Rebuilding(c, a) ==
  req[c].op = "rebuild" /\ req[c].audience_id = a /\ pc[c] \notin {"idle", "done"}

\* C28: an export of an audience's members answered while a rebuild of that
\* audience is in progress holds the complete membership of before the
\* rebuild, and one answered while none is in progress holds the committed
\* membership: never the set between the DELETE and the INSERT
C28_ExportSeesWholeMembership ==
  [][(resp' # resp /\ resp'.op = "export" /\ resp'.status = 200) =>
       /\ \A c \in Clients :
            Rebuilding(c, resp'.id) => resp'.rows = IdsOf(spre[c].members, resp'.id)
       /\ (\A c \in Clients : ~Rebuilding(c, resp'.id)) =>
            resp'.rows = IdsOf(members, resp'.id)]_vars

\* the members of an audience were exported, in full, while a rebuild had
\* deleted them and not yet inserted the new ones
C28_Witness ==
  \E c \in Clients :
    /\ req[c].op = "rebuild" /\ pc[c] = "aud_insert"
    /\ aw[c].del # {}
    /\ resp.op = "export" /\ resp.status = 200 /\ resp.id = req[c].audience_id
    /\ resp.rows = IdsOf(aw[c].del, req[c].audience_id)

RaceTrackReqs == {Track("u1", NULL, NULL, "page_view", NoAmount, NoTime)}

NextRace ==
  \/ \E c \in Clients : BeginTrack(c, RaceTrackReqs)
  \/ \E c \in Clients : BeginRebuild(c, {1})
  \/ \E c \in Clients : Lookup(c)
  \/ \E c \in Clients : InsertProfile(c)
  \/ \E c \in Clients : InsertEvent(c)
  \/ \E c \in Clients : UpdateAggregates(c)
  \/ \E c \in Clients : SelectAudience(c)
  \/ \E c \in Clients : DeleteMembers(c)
  \/ \E c \in Clients : InsertMembers(c)
  \/ \E c \in Clients : UpdateAudience(c)
  \/ \E c \in Clients : Commit(c)
  \/ \E c \in Clients : Rollback(c)
  \/ CreateAudience({"vip"}, {EmptyDefinition})
  \/ Elapse

\* audiences: rebuilds of one audience and Track requests served concurrently
SpecRace == Init /\ [][NextRace]_vars

\* C29: the SELECT of a rebuild whose audience id has no row ends the request
\* with 404 (or with a failure of that call), and the step changes no profile,
\* event, audience or member and leaves the transaction without writes
C29_UnknownAudienceNotFound ==
  [][\A c \in Clients :
       (/\ pc[c] = "aud_select" /\ pc'[c] # "aud_select"
        /\ req[c].audience_id \notin DOMAIN audiences) =>
         (/\ pc'[c] # "rollback" => (pc'[c] = "done" /\ status'[c] = 404)
          /\ profiles' = profiles /\ events' = events
          /\ audiences' = audiences /\ members' = members
          /\ aw'[c] = NoWrites /\ wr'[c] = wr[c] /\ evs'[c] = evs[c])]_vars

\* a rebuild of an audience that does not exist was answered 404 while
\* another audience has members, which are the ones of before the request
C29_Witness ==
  \E c \in Clients :
    /\ Done(c) /\ req[c].op = "rebuild" /\ status[c] = 404
    /\ req[c].audience_id \notin DOMAIN audiences
    /\ members # {} /\ members = spre[c].members
    /\ audiences = spre[c].audiences

\* C30: when a rebuild commits, the added_members count of its response is
\* the number of member rows of that audience in the committed state
C30_CountIsMembership ==
  [][\A c \in Clients :
       (pc[c] = "commit" /\ pc'[c] = "done" /\ req[c].op = "rebuild") =>
         reb[c].rowCount =
           Cardinality({m \in members' : m.audience_id = req[c].audience_id})]_vars

BuiltTrackReqs == {Track("u1", NULL, NULL, "page_view", NoAmount, NoTime)}

BuiltDefinitions == {EmptyDefinition, TextDefinition, ArrayDefinition}

NextBuilt ==
  \/ \E c \in SeqClients : BeginTrack(c, BuiltTrackReqs)
  \/ \E c \in SeqClients : BeginRebuild(c, AudIds)
  \/ \E c \in SeqClients : Lookup(c)
  \/ \E c \in SeqClients : InsertProfile(c)
  \/ \E c \in SeqClients : InsertEvent(c)
  \/ \E c \in SeqClients : UpdateAggregates(c)
  \/ \E c \in SeqClients : SelectAudience(c)
  \/ \E c \in SeqClients : DeleteMembers(c)
  \/ \E c \in SeqClients : InsertMembers(c)
  \/ \E c \in SeqClients : UpdateAudience(c)
  \/ \E c \in SeqClients : Commit(c)
  \/ \E c \in SeqClients : Rollback(c)
  \/ \E c \in SeqClients : Fail(c)
  \/ CreateAudience(AudNames, BuiltDefinitions)
  \/ Tick

\* audiences created from every kind of name and definition, rebuilt one
\* request at a time with store failures, time passing
SpecBuilt == Init /\ [][NextBuilt]_vars

\* c's rebuild of audience a commits in this step
RebuildCommits(c, a) ==
  /\ pc[c] = "commit" /\ pc'[c] = "done"
  /\ req[c].op = "rebuild" /\ req[c].audience_id = a

\* last_built_at is null when the audience is created, changes only in the
\* step that commits a rebuild of that audience, and that step sets it
LastBuiltAtLifecycle ==
  /\ \A a \in DOMAIN audiences' \ DOMAIN audiences :
       audiences'[a].last_built_at = NoTime
  /\ \A a \in DOMAIN audiences :
       audiences'[a].last_built_at # audiences[a].last_built_at =>
         \E c \in Clients : RebuildCommits(c, a)
  /\ \A c \in Clients : \A a \in DOMAIN audiences :
       RebuildCommits(c, a) => audiences'[a].last_built_at = now[c]

\* every audience row has a non-empty name and a definition that is an object
AudiencesWellFormed ==
  \A a \in DOMAIN audiences :
    isNonEmptyString(audiences[a].name) /\ audiences[a].definition.kind = "object"

\* C31: last_built_at is null from the creation of an audience until its
\* first successful rebuild commits, each successful rebuild sets it, a failed
\* or not-found rebuild leaves it alone, and no audience is created from an
\* empty name or from a definition that is not an object
C31_LastBuiltAtAndCreation ==
  [][LastBuiltAtLifecycle /\ AudiencesWellFormed']_vars

\* SpecPayload: one request at a time; /identify with traits absent, a string
\* and an object; /track with properties absent, a string and an object
PayloadIdentifyReqs ==
  {IdentifyT("u1", NULL, NULL, tr) : tr \in {AbsentTraits, TextTraits, Obj([a |-> 1])}}

PayloadTrackReqs ==
  {Track("u1", NULL, NULL, "purchase", am, NoTime) :
     am \in {NoAmount, TextProperties, Some(59990)}}

NextPayload ==
  \/ \E c \in SeqClients : BeginIdentify(c, PayloadIdentifyReqs)
  \/ \E c \in SeqClients : BeginTrack(c, PayloadTrackReqs)
  \/ \E c \in SeqClients : Lookup(c)
  \/ \E c \in SeqClients : InsertProfile(c)
  \/ \E c \in SeqClients : UpdateProfile(c)
  \/ \E c \in SeqClients : InsertEvent(c)
  \/ \E c \in SeqClients : UpdateAggregates(c)
  \/ \E c \in SeqClients : Commit(c)
  \/ \E c \in SeqClients : Rollback(c)
  \/ \E c \in SeqClients : Fail(c)
  \/ Tick

\* one request at a time with every kind of payload, store failures
SpecPayload == Init /\ [][NextPayload]_vars

\* the request of c has a traits or properties payload that is not an object
NonObjectPayload(c) ==
  \/ req[c].op = "identify" /\ req[c].traits.kind \notin {"absent", "object"}
  \/ req[c].op = "track" /\ req[c].amount.t = "payload"

\* C32: an Identify whose traits payload, or a Track whose properties
\* payload, is present but not an object is answered with a validation
\* error and leaves profiles and events as they were
C32_NonObjectPayloadRejected ==
  \A c \in Clients :
    (Done(c) /\ NonObjectPayload(c)) =>
      /\ status[c] = 400
      /\ profiles = pre[c]
      /\ events = spre[c].events

\* C33: no step deletes an event or a profile, and no step changes a field
\* of an event of the log (an event is the record of all its fields)
C33_AppendOnly ==
  [][events \subseteq events' /\ DOMAIN profiles \subseteq DOMAIN profiles']_vars

\* a rebuild committed members while the log held events, which it still holds
C33_Witness ==
  \E c \in Clients :
    /\ RebuildDone(c)
    /\ spre[c].events # {} /\ spre[c].events \subseteq events
    /\ members # {}
    /\ DOMAIN pre[c] = DOMAIN profiles

\* SpecMerge: concurrent /identify of user u1 with traits {a: 1}, {b: 2} or none
MergeIdentifyReqs ==
  {IdentifyT("u1", NULL, NULL, tr) : tr \in {AbsentTraits, Obj([a |-> 1]), Obj([b |-> 2])}}

NextMerge ==
  \/ \E c \in Clients : BeginIdentify(c, MergeIdentifyReqs)
  \/ \E c \in Clients : Lookup(c)
  \/ \E c \in Clients : InsertProfile(c)
  \/ \E c \in Clients : UpdateProfile(c)
  \/ \E c \in Clients : Commit(c)
  \/ \E c \in Clients : Rollback(c)

\* concurrent /identify requests with trait payloads
SpecMerge == Init /\ [][NextMerge]_vars

\* C34: two /identify requests that run concurrently on the same existing
\* profile with disjoint trait keys leave, when both have committed, a profile
\* whose traits hold the keys and values of both
C34_NoLostTraits ==
  [][\A c \in Clients : \A d \in Clients :
       ( /\ BothFinish(c, d)
         /\ status'[c] = 200 /\ status'[d] = 200
         /\ req[c].op = "identify" /\ req[d].op = "identify"
         /\ profile[c].id = profile[d].id
         /\ profile[c].id \in DOMAIN pre[c] /\ profile[c].id \in DOMAIN pre[d]
         /\ DOMAIN req[c].traits.val # {} /\ DOMAIN req[d].traits.val # {}
         /\ (DOMAIN req[c].traits.val) \cap (DOMAIN req[d].traits.val) = {} )
       => LET after == profiles'[profile[c].id].traits
          IN \A e \in {c, d} : \A k \in DOMAIN req[e].traits.val :
               k \in DOMAIN after /\ after[k] = req[e].traits.val[k]]_vars

\* SpecRebuilds: concurrent rebuilds of audience 1, whose definition is {},
\* page views of user u1 at handler 1 and of user u2 at handler 2, more than
\* 36500 days passing

RebuildsCalls == 4

\* the state after construction, with RebuildsCalls requests to come
InitRebuilds ==
  /\ profiles = NoRows
  /\ events = {}
  /\ wr = [c \in Clients |-> NoRows]
  /\ evs = [c \in Clients |-> {}]
  /\ nextId = 1
  /\ nextEid = 1
  /\ clock = 0
  /\ pc = [c \in Clients |-> "idle"]
  /\ req = [c \in Clients |-> NoReq]
  /\ now = [c \in Clients |-> 0]
  /\ profile = [c \in Clients |-> NullRow]
  /\ event = [c \in Clients |-> NoEvent]
  /\ status = [c \in Clients |-> 0]
  /\ ncalls = MaxCalls - RebuildsCalls
  /\ pre = [c \in Clients |-> NoRows]
  /\ conc = [c \in Clients |-> {}]
  /\ created = [c \in Clients |-> NullRow]
  /\ seq = [c \in Clients |-> 0]
  /\ audiences = NoAudiences
  /\ members = {}
  /\ aw = [c \in Clients |-> NoWrites]
  /\ reb = [c \in Clients |-> NoRebuild]
  /\ resp = NoResp
  /\ spre = [c \in Clients |->
              [events |-> {}, audiences |-> NoAudiences, members |-> {}, stores |-> {}]]
  /\ dirty = [a \in {} |-> FALSE]
  /\ warehouse = {}
  /\ etl = NoEtl

NextRebuilds ==
  \/ BeginTrack(1, {Track("u1", NULL, NULL, "page_view", NoAmount, NoTime)})
  \/ BeginTrack(2, {Track("u2", NULL, NULL, "page_view", NoAmount, NoTime)})
  \/ \E c \in Clients : BeginRebuild(c, {1})
  \/ \E c \in Clients : Lookup(c)
  \/ \E c \in Clients : InsertProfile(c)
  \/ \E c \in Clients : InsertEvent(c)
  \/ \E c \in Clients : UpdateAggregates(c)
  \/ \E c \in Clients : SelectAudience(c)
  \/ \E c \in Clients : DeleteMembers(c)
  \/ \E c \in Clients : InsertMembers(c)
  \/ \E c \in Clients : UpdateAudience(c)
  \/ \E c \in Clients : Commit(c)
  \/ \E c \in Clients : Rollback(c)
  \/ CreateAudience({"vip"}, {EmptyDefinition})
  \/ Elapse

SpecRebuilds == InitRebuilds /\ [][NextRebuilds]_vars

\* C35: when two rebuilds of one audience that ran concurrently have both
\* ended and at least one committed, the audience's members are the set one
\* of the committed rebuilds computed, each profile on one row
C35_OneRebuildWins ==
  [][\A c \in Clients : \A d \in Clients :
       ( /\ BothFinish(c, d)
         /\ req[c].op = "rebuild" /\ req[d].op = "rebuild"
         /\ req[c].audience_id = req[d].audience_id
         /\ req[c].audience_id \in DOMAIN audiences
         /\ \E e \in {c, d} : status'[e] = 200 )
       => LET a == req[c].audience_id
              rows == {m \in members' : m.audience_id = a}
          IN /\ \E e \in {c, d} :
                  status'[e] = 200 /\ {m.profile_id : m \in rows} = reb[e].rows
             /\ Cardinality(rows) = Cardinality({m.profile_id : m \in rows})]_vars

\* SpecIngest: handler 1 rebuilds audience 1 while handler 2 serves purchases
\* of 1500.00 by user u1 and of 50.00 by e1 and a page view of u1
IngestTrackReqs ==
  {Track("u1", NULL, NULL, "purchase", Some(1500000), NoTime),
   Track(NULL, "e1", NULL, "purchase", Some(50000), NoTime),
   Track("u1", NULL, NULL, "page_view", NoAmount, NoTime)}

IngestDefinitions == {EmptyDefinition, Definition(10000, 1)}

NextIngest ==
  \/ BeginRebuild(1, {1})
  \/ BeginTrack(2, IngestTrackReqs)
  \/ \E c \in Clients : Lookup(c)
  \/ \E c \in Clients : InsertProfile(c)
  \/ \E c \in Clients : InsertEvent(c)
  \/ \E c \in Clients : UpdateAggregates(c)
  \/ \E c \in Clients : SelectAudience(c)
  \/ \E c \in Clients : DeleteMembers(c)
  \/ \E c \in Clients : InsertMembers(c)
  \/ \E c \in Clients : UpdateAudience(c)
  \/ \E c \in Clients : Commit(c)
  \/ \E c \in Clients : Rollback(c)
  \/ \E c \in Clients : Fail(c)
  \/ CreateAudience({"vip"}, IngestDefinitions)
  \/ Elapse

\* rebuilds of one handler while another serves /track, store failures
SpecIngest == Init /\ [][NextIngest]_vars

\* C36: when a rebuild commits, the members of its audience are the
\* qualifying set of one committed state of profiles and events that the store
\* held between the arrival of the rebuild and its commit, at a time between
\* the two
C36_OneCommittedState ==
  [][\A c \in Clients :
       (pc[c] = "commit" /\ pc'[c] = "done" /\ req[c].op = "rebuild") =>
         \E st \in spre[c].stores : \E t \in {now[c], clock} :
           IdsOf(members', req[c].audience_id) =
             Qualifying(st.profiles, st.events, reb[c].min_total_spend,
                        t - reb[c].days_since_last_event)]_vars

\* a rebuild committed members after a /track had committed while it ran
C36_Witness ==
  \E c \in Clients :
    /\ Done(c) /\ status[c] = 200 /\ req[c].op = "rebuild"
    /\ Cardinality(spre[c].stores) >= 2
    /\ IdsOf(members, req[c].audience_id) # {}
    /\ \E st \in spre[c].stores :
         IdsOf(members, req[c].audience_id) #
           Qualifying(st.profiles, st.events, reb[c].min_total_spend,
                      now[c] - reb[c].days_since_last_event)

\* C37: after a rebuild of audience A, served alone, the member rows, the
\* last_built_at, the name and the definition of every other audience, every
\* profile and every event are the ones of before the request, and A keeps
\* its name and definition
C37_RebuildFrame ==
  \A c \in Clients :
    (Done(c) /\ req[c].op = "rebuild" /\ conc[c] = {}) =>
      /\ profiles = pre[c]
      /\ events = spre[c].events
      /\ {m \in members : m.audience_id # req[c].audience_id} =
           {m \in spre[c].members : m.audience_id # req[c].audience_id}
      /\ \A a \in DOMAIN spre[c].audiences :
           /\ a # req[c].audience_id => audiences[a] = spre[c].audiences[a]
           /\ audiences[a].name = spre[c].audiences[a].name
           /\ audiences[a].definition = spre[c].audiences[a].definition

\* a rebuild committed members of one audience while another audience had
\* members, which it still has
C37_Witness ==
  \E c \in Clients :
    /\ RebuildDone(c)
    /\ MemberIds(req[c].audience_id) # {}
    /\ \E m \in members : m.audience_id # req[c].audience_id
    /\ \E a \in DOMAIN audiences :
         a # req[c].audience_id /\ audiences[a].last_built_at # NoTime

\* C38: in every state, the profile id of every event that has one and of
\* every member row is the id of a stored profile, the audience id of every
\* member row is the id of a stored audience, and no two member rows have the
\* same audience and profile
C38_ReferentialIntegrity ==
  /\ \A ev \in events : ev.profile_id # 0 => ev.profile_id \in DOMAIN profiles
  /\ \A m \in members :
       m.profile_id \in DOMAIN profiles /\ m.audience_id \in DOMAIN audiences
  /\ \A m \in members : \A n \in members :
       (m.audience_id = n.audience_id /\ m.profile_id = n.profile_id) => m = n

\* two rebuilds of one audience ran concurrently at different times, both
\* committed, and the audience has members
C38_Witness ==
  \E c \in Clients : \E d \in Clients :
    /\ Raced(c, d) /\ Done(c) /\ Done(d)
    /\ req[c].op = "rebuild" /\ req[d].op = "rebuild"
    /\ status[c] = 200 /\ status[d] = 200
    /\ now[c] # now[d]
    /\ members # {} /\ events # {}

\* SpecSeen: concurrent /identify and /track of user u1, time passing
SeenIdentifyReqs == {Identify("u1", NULL, NULL)}

SeenTrackReqs == {Track("u1", NULL, NULL, "page_view", NoAmount, NoTime)}

NextSeen ==
  \/ \E c \in Clients : BeginIdentify(c, SeenIdentifyReqs)
  \/ \E c \in Clients : BeginTrack(c, SeenTrackReqs)
  \/ \E c \in Clients : Lookup(c)
  \/ \E c \in Clients : InsertProfile(c)
  \/ \E c \in Clients : UpdateProfile(c)
  \/ \E c \in Clients : InsertEvent(c)
  \/ \E c \in Clients : UpdateAggregates(c)
  \/ \E c \in Clients : Commit(c)
  \/ \E c \in Clients : Rollback(c)
  \/ Tick

\* concurrent requests of one user with a clock that only moves forward
SpecSeen == Init /\ [][NextSeen]_vars

\* C39: in every state, first_seen_at <= last_seen_at for every profile (the
\* clock of the model never goes backwards)
C39_FirstSeenBeforeLastSeen ==
  \A id \in DOMAIN profiles : profiles[id].first_seen_at <= profiles[id].last_seen_at

\* ------------------------------------------------- export to the warehouse
MaxExports == 2

\* v || null of a nullable string
OrNull(v) == IF v = "" THEN NULL ELSE v

\* the BigQuery row of profile p: id: String(p.id), email: p.email || null, ...
WarehouseRow(p) ==
  [id |-> ToString(p.id), email |-> OrNull(p.email), user_id |-> OrNull(p.user_id),
   anonymous_id |-> OrNull(p.anonymous_id), total_orders |-> p.total_orders,
   total_spend |-> p.total_spend, last_seen_at |-> p.last_seen_at]

\* ensureTableExists(); fetchProfilesFromPostgres(); return if there is no
\* profile, else map the profiles to rows
EtlFetch ==
  /\ etl.pc \in {"idle", "done"}
  /\ etl.run < MaxExports
  /\ etl' = [pc |-> IF DOMAIN profiles = {} THEN "done" ELSE "delete",
             profiles |-> profiles,
             rows |-> {WarehouseRow(profiles[id]) : id \in DOMAIN profiles},
             run |-> etl.run + 1,
             failed |-> FALSE]
  /\ UNCHANGED <<profiles, events, wr, evs, nextId, nextEid, clock, pc, req, now,
                 profile, event, status, ncalls, pre, conc, created, seq>>
  /\ UNCHANGED audvars
  /\ UNCHANGED warehouse

\* DELETE FROM table WHERE TRUE: the query clears the table, or fails and
\* clears nothing; .catch() logs the error and the script goes on
EtlDelete ==
  /\ etl.pc = "delete"
  /\ \E ok \in BOOLEAN : warehouse' = IF ok THEN {} ELSE warehouse
  /\ etl' = [etl EXCEPT !.pc = "insert"]
  /\ UNCHANGED <<profiles, events, wr, evs, nextId, nextEid, clock, pc, req, now,
                 profile, event, status, ncalls, pre, conc, created, seq>>
  /\ UNCHANGED audvars

\* table.insert(rows): the rows are added, or the call throws and the script
\* reports "Export failed"
EtlInsert ==
  /\ etl.pc = "insert"
  /\ \E ok \in BOOLEAN :
       IF ok
       THEN /\ warehouse' = warehouse \cup {[row |-> r, run |-> etl.run] : r \in etl.rows}
            /\ etl' = [etl EXCEPT !.pc = "done"]
       ELSE /\ \E part \in SUBSET etl.rows :
                 /\ part # etl.rows
                 /\ warehouse' = warehouse \cup {[row |-> r, run |-> etl.run] : r \in part}
            /\ etl' = [etl EXCEPT !.pc = "done", !.failed = TRUE]
  /\ UNCHANGED <<profiles, events, wr, evs, nextId, nextEid, clock, pc, req, now,
                 profile, event, status, ncalls, pre, conc, created, seq>>
  /\ UNCHANGED audvars

\* SpecEtl: /track of users u1 and u2, one request at a time, and runs of the
\* export script
EtlTrackReqs ==
  {Track(u, NULL, NULL, "purchase", Some(59990), NoTime) : u \in {"u1", "u2"}}

NextEtl ==
  \/ \E c \in SeqClients : BeginTrack(c, EtlTrackReqs)
  \/ \E c \in SeqClients : Lookup(c)
  \/ \E c \in SeqClients : InsertProfile(c)
  \/ \E c \in SeqClients : InsertEvent(c)
  \/ \E c \in SeqClients : UpdateAggregates(c)
  \/ \E c \in SeqClients : Commit(c)
  \/ EtlFetch
  \/ EtlDelete
  \/ EtlInsert

SpecEtl == Init /\ [][NextEtl]_vars

\* C40: when a run of the export ends without reporting a failure, the
\* warehouse table holds one row for each profile the run read from the store
\* and no other row
C40_WarehouseMirrorsProfiles ==
  [][(etl.pc # "done" /\ etl'.pc = "done" /\ ~etl'.failed) =>
       /\ \A id \in DOMAIN etl'.profiles :
            Cardinality({w \in warehouse' : w.row.id = ToString(id)}) = 1
       /\ \A w \in warehouse' :
            \E id \in DOMAIN etl'.profiles : w.row = WarehouseRow(etl'.profiles[id])]_vars

====
